---- MODULE Spec2Model ----
(***************************************************************************)
(* Client-side search and ranking engine of the job-listing application:   *)
(* string similarity, fuzzy field matching, the @tag query parser, the     *)
(* salary / experience extractors and the AllJobsList query pipeline.      *)
(*                                                                         *)
(* Strings are sequences of one-character strings.  Similarity ratios are  *)
(* exact fractions [num, den]; thresholds are given in hundredths.         *)
(* Salary values are kept in halves (twice the JavaScript number) so that  *)
(* the +0.5 tie-break offset stays an integer.                             *)
(***************************************************************************)
EXTENDS Integers, Sequences, FiniteSets, TLC

VARIABLES
    jobs,                 \* props.jobs of AllJobsList
    jobsWithTimestamps,   \* useMemo: jobs with _dateTimestamp
    debouncedSearchText,  \* the debounced search text
    parsedSearch,         \* useMemo: parseSearchText(debouncedSearchText)
    sortBy,               \* useState<SortOption>
    ageFilter,            \* the 'age' query parameter (NULL or an integer)
    now,                  \* the wall clock, Date.now()
    evalNow,              \* the Date.now() value read by the last processedJobs run
    processedJobs,        \* useMemo: the filtered and sorted list
    clickedAge,           \* history: the option of the last click on a Posted button
    call,                 \* last direct application of a pure function
    sidebar,              \* JobListSidebar: its state and memo
    searchBox,            \* AllJobsList: search input, debounce and 'search' parameter
    savedJobs,            \* localStorage and the mounted useSavedJobs instances
    serverCache           \* the module-level cache of the server-side loader

vars == <<jobs, jobsWithTimestamps, debouncedSearchText, parsedSearch, sortBy,
          ageFilter, now, evalNow, processedJobs, clickedAge, call,
          sidebar, searchBox, savedJobs, serverCache>>

\* the components outside the query pipeline
otherVars == <<sidebar, searchBox, savedJobs, serverCache>>

pipelineVars == <<jobs, jobsWithTimestamps, debouncedSearchText, parsedSearch,
                  sortBy, ageFilter, now, evalNow, processedJobs, clickedAge>>

\* A value that may be null is <<>> (null) or <<v>> (the value v)
NULL == <<>>
Some(v) == <<v>>

-----------------------------------------------------------------------------
(* Characters and the String.prototype methods the engine uses *)

UpperChars == <<"A","B","C","D","E","F","G","H","I","J","K","L","M",
                "N","O","P","Q","R","S","T","U","V","W","X","Y","Z">>
LowerChars == <<"a","b","c","d","e","f","g","h","i","j","k","l","m",
                "n","o","p","q","r","s","t","u","v","w","x","y","z">>
DigitChars == <<"0","1","2","3","4","5","6","7","8","9">>

Range(s) == {s[i] : i \in DOMAIN s}

UpperSet == Range(UpperChars)
LowerSet == Range(LowerChars)
DigitSet == Range(DigitChars)
SpaceSet == {" ", "\t", "\n"}
WordSet == UpperSet \cup LowerSet \cup DigitSet \cup {"_"}

IsUpper(c) == c \in UpperSet
IsLower(c) == c \in LowerSet
\* \d
IsDigit(c) == c \in DigitSet
\* \w
IsWordChar(c) == c \in WordSet
\* \s
IsSpace(c) == c \in SpaceSet

IndexIn(c, s) == CHOOSE i \in DOMAIN s : s[i] = c

LowerOf == [c \in UpperSet |-> LowerChars[IndexIn(c, UpperChars)]]
DigitValueOf == [c \in DigitSet |-> IndexIn(c, DigitChars) - 1]

toLowerChar(c) == IF IsUpper(c) THEN LowerOf[c] ELSE c
toLowerCase(s) == [i \in DOMAIN s |-> toLowerChar(s[i])]

DigitValue(c) == DigitValueOf[c]

Min2(a, b) == IF a <= b THEN a ELSE b
Max2(a, b) == IF a >= b THEN a ELSE b

\* s.slice(from - 1), 1-based
Drop(s, k) == SubSeq(s, k + 1, Len(s))
Take(s, k) == SubSeq(s, 1, k)

RECURSIVE trimStart(_)
trimStart(s) ==
    IF s # <<>> /\ IsSpace(Head(s)) THEN trimStart(Tail(s)) ELSE s

RECURSIVE trimEnd(_)
trimEnd(s) ==
    IF s # <<>> /\ IsSpace(s[Len(s)]) THEN trimEnd(Take(s, Len(s) - 1)) ELSE s

trim(s) == trimEnd(trimStart(s))

\* whether sub occurs in s starting at 1-based position p
StartsAt(s, sub, p) ==
    /\ p >= 1
    /\ p + Len(sub) - 1 <= Len(s)
    /\ \A k \in 1..Len(sub) : s[p + k - 1] = sub[k]

includes(s, sub) == \E p \in 1..(Len(s) + 1) : StartsAt(s, sub, p)

\* s.split(/\s+/).filter(w => w.length > 0)
RECURSIVE splitWordsAcc(_, _, _)
splitWordsAcc(s, cur, acc) ==
    IF s = <<>>
    THEN IF cur = <<>> THEN acc ELSE Append(acc, cur)
    ELSE IF IsSpace(Head(s))
         THEN splitWordsAcc(Tail(s), <<>>, IF cur = <<>> THEN acc ELSE Append(acc, cur))
         ELSE splitWordsAcc(Tail(s), Append(cur, Head(s)), acc)

splitWords(s) == splitWordsAcc(s, <<>>, <<>>)

-----------------------------------------------------------------------------
(* String similarity: db-query.ts levenshteinDistance, similarityRatio *)

\* a variant that takes the dearest edit
Max3(a, b, c) == Max2(a, Max2(b, c))

Min3(a, b, c) == Min2(a, Min2(b, c))

\* matrix[i][j] is element j + 1 of element i + 1 of the sequence of rows.
\* FillRow extends row i (columns 0..Len(row)-1 are filled) to its full length
RECURSIVE FillRow(_, _, _, _, _)
FillRow(str1, str2, i, prev, row) ==
    IF Len(row) > Len(str2) THEN row
    ELSE LET j == Len(row)
             cell == IF str1[i] = str2[j]
                     THEN prev[j]
                     ELSE Min3(prev[j + 1] + 1, row[j] + 1, prev[j] + 1)
         IN FillRow(str1, str2, i, prev, Append(row, cell))

\* appends rows Len(matrix)..Len(str1) to the rows filled so far
RECURSIVE FillMatrix(_, _, _)
FillMatrix(str1, str2, matrix) ==
    IF Len(matrix) > Len(str1) THEN matrix
    ELSE LET i == Len(matrix)
         IN FillMatrix(str1, str2,
                       Append(matrix, FillRow(str1, str2, i, matrix[i], <<i>>)))

levenshteinDistance(str1, str2) ==
    LET row0 == [j \in 1..(Len(str2) + 1) |-> j - 1]
    IN FillMatrix(str1, str2, <<row0>>)[Len(str1) + 1][Len(str2) + 1]

\* a variant that divides by the length of the first string
similarityRatioByFirst(str1, str2) ==
    IF Len(str1) = 0 THEN [num |-> 1, den |-> 1]
    ELSE [num |-> Len(str1) - levenshteinDistance(str1, str2), den |-> Len(str1)]

\* 1 - distance / maxLen as the fraction num / den
similarityRatio(str1, str2) ==
    LET maxLen == Max2(Len(str1), Len(str2))
    IN IF maxLen = 0 THEN [num |-> 1, den |-> 1]
       ELSE [num |-> maxLen - levenshteinDistance(str1, str2), den |-> maxLen]

\* ratio >= threshold, threshold in hundredths
RatioAtLeast(r, threshold) == r.num * 100 >= threshold * r.den

-----------------------------------------------------------------------------
(* Fuzzy field matcher: db-query.ts fuzzyMatch *)

RegExpMeta == {".", "*", "+", "?", "^", "$", "{", "}", "(", ")", "|", "[", "]", "\\"}

\* a variant that leaves the query as it is
unescaped(s) == s

\* str.replace(/[.*+?^${}()|[\]\\]/g, '\\$&')
RECURSIVE escapeRegExp(_)
escapeRegExp(s) ==
    IF s = <<>> THEN <<>>
    ELSE (IF Head(s) \in RegExpMeta THEN <<"\\", Head(s)>> ELSE <<Head(s)>>)
         \o escapeRegExp(Tail(s))

\* the atoms of a pattern source: \c is the literal c, . is any character,
\* any other character stands for itself
RECURSIVE PatternAtoms(_)
PatternAtoms(p) ==
    IF p = <<>> THEN <<>>
    ELSE IF Head(p) = "\\" /\ Len(p) >= 2
         THEN <<[kind |-> "lit", ch |-> p[2]]>> \o PatternAtoms(Drop(p, 2))
         ELSE IF Head(p) = "."
              THEN <<[kind |-> "any", ch |-> "."]>> \o PatternAtoms(Tail(p))
              ELSE <<[kind |-> "lit", ch |-> Head(p)]>> \o PatternAtoms(Tail(p))

AtomMatches(atom, c) == atom.kind = "any" \/ atom.ch = c

\* \b between positions p and p + 1 of s (p in 0..Len(s))
WordBoundaryAt(s, p) ==
    LET before == p >= 1 /\ IsWordChar(s[p])
        after == p + 1 <= Len(s) /\ IsWordChar(s[p + 1])
    IN before # after

\* new RegExp(`\\b${source}\\b`, 'i').test(text), text already lower case
wordBoundaryTest(source, text) ==
    LET atoms == PatternAtoms(source)
        n == Len(atoms)
    IN \E p \in 0..(Len(text) - n) :
          /\ WordBoundaryAt(text, p)
          /\ \A k \in 1..n : AtomMatches(atoms[k], text[p + k])
          /\ WordBoundaryAt(text, p + n)

\* Math.min(a, b) / Math.max(a, b) >= 0.5
lengthRatioOk(queryWord, textWord) ==
    2 * Min2(Len(queryWord), Len(textWord)) >= Max2(Len(queryWord), Len(textWord))

\* the body of the for loop of the single-word branch
singleWordHit(textWord, queryWord, threshold) ==
    \/ textWord = queryWord
    \/ Len(queryWord) >= 4 /\ includes(textWord, queryWord)
    \/ /\ lengthRatioOk(queryWord, textWord)
       /\ RatioAtLeast(similarityRatio(textWord, queryWord), threshold)

\* the callback of queryWords.every(...) of the multi-word branch
multiWordHit(queryWord, textWords, normalizedText, threshold) ==
    \/ \E i \in DOMAIN textWords : textWords[i] = queryWord
    \/ wordBoundaryTest(escapeRegExp(queryWord), normalizedText)
    \/ Len(queryWord) >= 3 /\ includes(normalizedText, queryWord)
    \/ \E i \in DOMAIN textWords :
          /\ lengthRatioOk(queryWord, textWords[i])
          /\ RatioAtLeast(similarityRatio(textWords[i], queryWord), threshold)

\* the word-level part with queryWords.some(...) in place of every
wordLevelMatchSome(normalizedText, normalizedQuery, threshold) ==
    LET queryWords == splitWords(normalizedQuery)
        textWords == splitWords(normalizedText)
    IN IF Len(queryWords) = 1
       THEN IF Len(queryWords[1]) <= 2
            THEN includes(normalizedText, normalizedQuery)
            ELSE \E i \in DOMAIN textWords :
                    singleWordHit(textWords[i], queryWords[1], threshold)
       ELSE \E q \in DOMAIN queryWords :
               multiWordHit(queryWords[q], textWords, normalizedText, threshold)

\* the word-level part of fuzzyMatch (from the split onwards)
wordLevelMatch(normalizedText, normalizedQuery, threshold) ==
    LET queryWords == splitWords(normalizedQuery)
        textWords == splitWords(normalizedText)
    IN IF Len(queryWords) = 1
       THEN IF Len(queryWords[1]) <= 2
            THEN includes(normalizedText, normalizedQuery)
            ELSE \E i \in DOMAIN textWords :
                    singleWordHit(textWords[i], queryWords[1], threshold)
       ELSE \A q \in DOMAIN queryWords :
               multiWordHit(queryWords[q], textWords, normalizedText, threshold)

fuzzyMatch(text, query, threshold) ==
    LET normalizedText == trim(toLowerCase(text))
        normalizedQuery == trim(toLowerCase(query))
    IN \/ normalizedText = normalizedQuery
       \/ RatioAtLeast(similarityRatio(normalizedText, normalizedQuery), threshold)
       \/ wordBoundaryTest(escapeRegExp(normalizedQuery), normalizedText)
       \/ Len(normalizedQuery) >= 3 /\ includes(normalizedText, normalizedQuery)
       \/ wordLevelMatch(normalizedText, normalizedQuery, threshold)

-----------------------------------------------------------------------------
(* Structured query parser: parseSearchText *)

AgeTag == <<"@","a","g","e",":">>
CompanyTag == <<"@","c","o","m","p","a","n","y",":">>
LocationTag == <<"@","l","o","c","a","t","i","o","n",":">>

SetMin(S) == CHOOSE x \in S : \A y \in S : x <= y
SetMax(S) == CHOOSE x \in S : \A y \in S : x >= y

\* the tag keyword at position p, letter for letter
TagAtSameCase(s, tag, p) ==
    /\ p + Len(tag) - 1 <= Len(s)
    /\ \A k \in 1..Len(tag) : s[p + k - 1] = tag[k]

\* the tag keyword at position p, letter case ignored (flag i)
TagAt(s, tag, p) ==
    /\ p + Len(tag) - 1 <= Len(s)
    /\ \A k \in 1..Len(tag) : toLowerChar(s[p + k - 1]) = tag[k]

\* parseInt(digits, 10)
RECURSIVE parseIntDigits(_, _)
parseIntDigits(digits, acc) ==
    IF digits = <<>> THEN acc
    ELSE parseIntDigits(Tail(digits), acc * 10 + DigitValue(Head(digits)))

\* last position of the greedy \d+ that starts at q
DigitRunEnd(s, q) ==
    SetMax({e \in q..Len(s) : \A k \in q..e : IsDigit(s[k])})

\* /@age:(\d+)/ matched at p: the position after the match, 0 when no match at p
AgeMatchEnd(s, p) ==
    LET q == p + Len(AgeTag)
    IN IF TagAt(s, AgeTag, p) /\ q <= Len(s) /\ IsDigit(s[q])
       THEN DigitRunEnd(s, q) + 1
       ELSE 0

\* (?=\s*@|\s*$) at position q (q = Len(s) + 1 is the end of the input)
LookaheadOk(s, q) ==
    \E rest \in {trimStart(Drop(s, q - 1))} : rest = <<>> \/ Head(rest) = "@"

\* /@tag:([^@]+?)(?=\s*@|\s*$)/ matched at p: the position after the lazy
\* capture, 0 when there is no match at p
TagMatchEnd(s, tag, p) ==
    IF ~TagAt(s, tag, p) THEN 0
    ELSE LET lazyEnd(ends) == IF ends = {} THEN 0 ELSE SetMin(ends) + 1
         IN lazyEnd({e \in (p + Len(tag))..Len(s) :
                        /\ \A k \in (p + Len(tag))..e : s[k] # "@"
                        /\ LookaheadOk(s, e + 1)})

\* the leftmost match: [start, end) or start = 0
NoMatch == [start |-> 0, end |-> 0]

FirstAgeMatch(s) ==
    LET leftmost(starts) ==
            IF starts = {} THEN NoMatch
            ELSE [start |-> SetMin(starts), end |-> AgeMatchEnd(s, SetMin(starts))]
    IN leftmost({p \in 1..Len(s) : AgeMatchEnd(s, p) # 0})

FirstTagMatch(s, tag) ==
    LET leftmost(starts) ==
            IF starts = {} THEN NoMatch
            ELSE [start |-> SetMin(starts), end |-> TagMatchEnd(s, tag, SetMin(starts))]
    IN leftmost({p \in 1..Len(s) : TagMatchEnd(s, tag, p) # 0})

\* s.replace(/@age:\d+/gi, '')
RECURSIVE removeAllAge(_)
removeAllAge(s) ==
    LET cut(m) == IF m.start = 0 THEN s
                  ELSE Take(s, m.start - 1) \o removeAllAge(Drop(s, m.end - 1))
    IN cut(FirstAgeMatch(s))

\* s.replace(/@tag:[^@]+?(?=\s*@|\s*$)/gi, '')
RECURSIVE removeAllTag(_, _)
removeAllTag(s, tag) ==
    LET cut(m) == IF m.start = 0 THEN s
                  ELSE Take(s, m.start - 1) \o removeAllTag(Drop(s, m.end - 1), tag)
    IN cut(FirstTagMatch(s, tag))

\* the @age step: [age, remainingText]
extractAge(remainingText) ==
    LET step(ageMatch) ==
            IF ageMatch.start = 0
            THEN [value |-> NULL, remainingText |-> remainingText]
            ELSE [value |-> Some(parseIntDigits(
                               SubSeq(remainingText, ageMatch.start + Len(AgeTag),
                                      ageMatch.end - 1), 0)),
                  remainingText |-> trim(removeAllAge(remainingText))]
    IN step(FirstAgeMatch(remainingText))

\* the @company / @location step: [captured value trimmed, remainingText]
extractTag(remainingText, tag) ==
    LET step(tagMatch) ==
            IF tagMatch.start = 0
            THEN [value |-> NULL, remainingText |-> remainingText]
            ELSE [value |-> Some(trim(SubSeq(remainingText, tagMatch.start + Len(tag),
                                             tagMatch.end - 1))),
                  remainingText |-> trim(removeAllTag(remainingText, tag))]
    IN step(FirstTagMatch(remainingText, tag))

\* value || null
orNull(v) == IF v = NULL \/ v[1] = <<>> THEN NULL ELSE v

EmptyParsedSearch ==
    [age |-> NULL, company |-> NULL, location |-> NULL, generalSearch |-> <<>>]

parseSearchText(searchText) ==
    IF trim(searchText) = <<>> THEN EmptyParsedSearch
    ELSE LET result(a, c, l) ==
                 [age |-> a.value,
                  company |-> orNull(c.value),
                  location |-> orNull(l.value),
                  generalSearch |-> l.remainingText]
             withLocation(a, c) == result(a, c, extractTag(c.remainingText, LocationTag))
             withCompany(a) == withLocation(a, extractTag(a.remainingText, CompanyTag))
         IN withCompany(extractAge(searchText))

-----------------------------------------------------------------------------
(* JavaScript numbers that may be infinite or NaN (comparator results) *)

Num(n) == [k |-> "num", n |-> n]
Infinity == [k |-> "inf", n |-> 0]
NegInfinity == [k |-> "neginf", n |-> 0]
NaN == [k |-> "nan", n |-> 0]

\* a - b
numSub(a, b) ==
    CASE a.k = "nan" \/ b.k = "nan" -> NaN
      [] a.k = "num" /\ b.k = "num" -> Num(a.n - b.n)
      [] a.k = b.k -> NaN
      [] a.k = "inf" \/ b.k = "neginf" -> Infinity
      [] OTHER -> NegInfinity

\* how Array.prototype.sort reads a comparator result: NaN counts as +0
cmpSign(v) ==
    CASE v.k = "nan" -> 0
      [] v.k = "inf" -> 1
      [] v.k = "neginf" -> -1
      [] OTHER -> IF v.n < 0 THEN -1 ELSE IF v.n > 0 THEN 1 ELSE 0

-----------------------------------------------------------------------------
(* Numeric field extractors: getExperienceValue, getSalaryValue *)

\* positions where a maximal run of characters satisfying the class starts
\* are found with these two helpers
RECURSIVE RunEnd(_, _, _)
\* last position of the maximal run of characters of class cls from q
\* (q - 1 when s[q] is not in the class)
RunEnd(s, q, cls) ==
    IF q <= Len(s) /\ s[q] \in cls THEN RunEnd(s, q + 1, cls) ELSE q - 1

CharsOf(s) == Range(s)

\* experience.match(/\d+/): the first run of digits, NULL when there is none
firstDigitRun(s) ==
    LET starts == {p \in 1..Len(s) : IsDigit(s[p])}
    IN IF starts = {} THEN NULL
       ELSE LET p == SetMin(starts)
            IN Some(SubSeq(s, p, RunEnd(s, p, DigitSet)))

\* a variant that gives a text without a number the value 0
getExperienceValueZero(experience) ==
    IF experience = NULL \/ experience[1] = <<>> THEN Num(0)
    ELSE LET numberMatch == firstDigitRun(experience[1])
         IN IF numberMatch = NULL THEN Num(0)
            ELSE Num(parseIntDigits(numberMatch[1], 0))

getExperienceValue(experience) ==
    IF experience = NULL \/ experience[1] = <<>> THEN Infinity
    ELSE LET numberMatch == firstDigitRun(experience[1])
         IN IF numberMatch = NULL THEN Infinity
            ELSE Num(parseIntDigits(numberMatch[1], 0))

\* Salary values are in tenths: the JavaScript number times SalaryScale
SalaryHalf == 5
SalaryScale == 2 * SalaryHalf

\* the characters standing for the non-ASCII currency signs and dashes
CurrencyChars == {"$", "EURO", "POUND", "YEN", "RUPEE"}
DashChars == {"-", "EN_DASH", "EM_DASH"}
QuoteChars == {"'", "\""}

\* str.replace(/[$...]/g, '') and str.replace(/,/g, '')
RECURSIVE removeChars(_, _)
removeChars(s, cls) ==
    IF s = <<>> THEN <<>>
    ELSE (IF Head(s) \in cls THEN <<>> ELSE <<Head(s)>>) \o removeChars(Tail(s), cls)

\* parseFloat(s) in tenths, NULL for NaN; digits after the first decimal are
\* dropped (the inputs of the model carry at most one)
parseFloatTenths(s) ==
    LET value(intDigits, fracDigits) ==
            IF intDigits = <<>> /\ fracDigits = <<>> THEN NULL
            ELSE Some(parseIntDigits(intDigits, 0) * SalaryScale
                      + (IF fracDigits = <<>> THEN 0 ELSE DigitValue(fracDigits[1])))
        fraction(body, intEnd) ==
            IF intEnd + 1 <= Len(body) /\ body[intEnd + 1] = "."
            THEN SubSeq(body, intEnd + 2, RunEnd(body, intEnd + 2, DigitSet))
            ELSE <<>>
        split(body, intEnd) == value(Take(body, intEnd), fraction(body, intEnd))
        unsigned(body) == split(body, RunEnd(body, 1, DigitSet))
        signed(sign, v) == IF v # NULL /\ sign = "-" THEN Some(0 - v[1]) ELSE v
        trimmed(t) ==
            IF t # <<>> /\ Head(t) \in {"+", "-"}
            THEN signed(Head(t), unsigned(Tail(t)))
            ELSE unsigned(t)
    IN trimmed(trimStart(s))

\* position after \s* from q
SkipSpaces(s, q) == RunEnd(s, q, SpaceSet) + 1
\* position after K? from q (flag i)
SkipK(s, q) == IF q <= Len(s) /\ s[q] \in {"K", "k"} THEN q + 1 ELSE q

AmountKey == <<"a","m","o","u","n","t">>

\* /'amount':\s*['"]([^'"]+)['"]|"amount":\s*['"]([^'"]+)['"]/i at p:
\* the captured text, NULL when there is no match at p
dictAmountAt(s, p) ==
    LET found(keyEnd, open, capEnd) ==
            IF /\ p <= Len(s) /\ s[p] \in QuoteChars
               /\ TagAt(s, AmountKey, p + 1)
               /\ keyEnd + 1 <= Len(s) /\ s[keyEnd] = s[p] /\ s[keyEnd + 1] = ":"
               /\ open <= Len(s) /\ s[open] \in QuoteChars
               /\ capEnd >= open + 1
               /\ capEnd + 1 <= Len(s) /\ s[capEnd + 1] \in QuoteChars
            THEN Some(SubSeq(s, open + 1, capEnd))
            ELSE NULL
        capture(keyEnd, open) ==
            found(keyEnd, open, RunEnd(s, open + 1, CharsOf(s) \ QuoteChars))
    IN capture(p + Len(AmountKey) + 1, SkipSpaces(s, p + Len(AmountKey) + 3))

dictAmountMatch(s) ==
    LET leftmost(starts) ==
            IF starts = {} THEN NULL ELSE dictAmountAt(s, SetMin(starts))
    IN leftmost({p \in 1..Len(s) : dictAmountAt(s, p) # NULL})

NumChars == DigitSet \cup {","}

\* /([\d,]+)\s*K?\s*[-...]\s*([\d,]+)\s*K?/i at p: [g1, all] or NULL
rangeAt(s, p) ==
    LET found(e1, dash, b2, e2) ==
            IF /\ e1 >= p
               /\ dash <= Len(s) /\ s[dash] \in DashChars
               /\ e2 >= b2
            THEN Some([g1 |-> SubSeq(s, p, e1),
                       all |-> SubSeq(s, p, SkipK(s, SkipSpaces(s, e2 + 1)) - 1)])
            ELSE NULL
        second(e1, dash, b2) == found(e1, dash, b2, RunEnd(s, b2, NumChars))
        separator(e1, dash) == second(e1, dash, SkipSpaces(s, dash + 1))
        first(e1) == separator(e1, SkipSpaces(s, SkipK(s, SkipSpaces(s, e1 + 1))))
    IN first(RunEnd(s, p, NumChars))

rangeMatch(s) ==
    LET leftmost(starts) == IF starts = {} THEN NULL ELSE rangeAt(s, SetMin(starts))
    IN leftmost({p \in 1..Len(s) : rangeAt(s, p) # NULL})

\* /([\d,]+)\s*K?/i: [g1, all] or NULL
singleMatch(s) ==
    LET at(p, e1) ==
            Some([g1 |-> SubSeq(s, p, e1),
                  all |-> SubSeq(s, p, SkipK(s, SkipSpaces(s, e1 + 1)) - 1)])
        leftmost(starts) ==
            IF starts = {} THEN NULL
            ELSE at(SetMin(starts), RunEnd(s, SetMin(starts), NumChars))
    IN leftmost({p \in 1..Len(s) : s[p] \in NumChars})

\* /K/i.test(text)
hasK(text) == \E i \in DOMAIN text : text[i] \in {"K", "k"}

\* the value of a range or single match: group 1 without commas, times 1000
\* when the match holds a K; NULL for NaN
matchAmount(m) ==
    LET scaled(v) ==
            IF v = NULL THEN NULL
            ELSE Some(IF hasK(m.all) THEN v[1] * 1000 ELSE v[1])
    IN scaled(parseFloatTenths(removeChars(m.g1, {","})))

\* the steps of getSalaryValue after the dict step
\* a variant without the + 0.5 of single values
salaryFromSingleNoOffset(normalized) ==
    LET result(amount) == IF amount # NULL THEN amount[1] ELSE 0 - SalaryScale
        matched(m) == result(IF m = NULL THEN NULL ELSE matchAmount(m[1]))
    IN matched(singleMatch(normalized))

salaryFromSingle(normalized) ==
    LET result(amount) ==
            IF amount # NULL THEN amount[1] + SalaryHalf ELSE 0 - SalaryScale
        matched(m) == result(IF m = NULL THEN NULL ELSE matchAmount(m[1]))
    IN matched(singleMatch(normalized))

salaryFromRange(normalized) ==
    LET result(min) == IF min # NULL THEN min[1] ELSE salaryFromSingle(normalized)
        matched(m) == result(IF m = NULL THEN NULL ELSE matchAmount(m[1]))
    IN matched(rangeMatch(normalized))

\* the result in tenths (-1 is -SalaryScale)
getSalaryValue(salarySummary) ==
    IF salarySummary = NULL \/ salarySummary[1] = <<>> THEN 0 - SalaryScale
    ELSE LET result(normalized, amount) ==
                 IF amount # NULL THEN amount[1] + SalaryHalf
                 ELSE salaryFromRange(normalized)
             matched(normalized, d) ==
                 result(normalized, IF d = NULL THEN NULL ELSE parseFloatTenths(d[1]))
             stripped(normalized) == matched(normalized, dictAmountMatch(normalized))
         IN stripped(removeChars(salarySummary[1], CurrencyChars))

-----------------------------------------------------------------------------
(* String comparison: normalizeForSearch, normalizeForCompare, compareStrings *)

normalizeForSearch(str) == toLowerCase(trim(str))
normalizeForCompare(str) == trim(str)

\* Primary collation order of the characters (root locale): white space, then
\* punctuation, then symbols, then digits, then letters; with sensitivity
\* 'base' upper and lower case letters have the same weight
CollationOrder ==
    <<" ", "_", "-", ",", ".", "@", "+", "$">> \o DigitChars \o LowerChars

CollationWeightOf ==
    [c \in Range(CollationOrder) |-> IndexIn(c, CollationOrder)]

collationWeight(c) ==
    LET l == toLowerChar(c)
    IN IF l \in DOMAIN CollationWeightOf THEN CollationWeightOf[l] ELSE 0

\* a.localeCompare(b, undefined, { sensitivity: 'base' }): negative, 0, positive
RECURSIVE localeCompareBase(_, _)
localeCompareBase(a, b) ==
    CASE a = <<>> /\ b = <<>> -> 0
      [] a = <<>> -> -1
      [] b = <<>> -> 1
      [] OTHER ->
           LET wa == collationWeight(Head(a))
               wb == collationWeight(Head(b))
           IN IF wa < wb THEN -1
              ELSE IF wa > wb THEN 1
              ELSE localeCompareBase(Tail(a), Tail(b))

\* a variant that folds case but does not trim
compareStringsNoTrim(a, b) ==
    Num(localeCompareBase(toLowerCase(a), toLowerCase(b)))

compareStrings(a, b) ==
    Num(localeCompareBase(normalizeForCompare(a), normalizeForCompare(b)))

-----------------------------------------------------------------------------
(* The job records and search texts the model draws from *)

Job1 ==
    [id |-> 1, title |-> <<"D","e","v">>, company |-> <<"A","c","m","e">>,
     location |-> <<"S","F">>,
     posted_at |-> Some(<<"1","9","7","0","-","0","1","-","1","0">>),
     experience |-> Some(<<"2","-","4"," ","y","e","a","r","s">>),
     salary_summary |-> Some(<<"$","1","4","5","K","-","$","1","7","5","K">>)]

Job2 ==
    [id |-> 2, title |-> <<"d","e","v"," ">>, company |-> <<"a","c","m","e">>,
     location |-> <<" ","N","Y">>,
     posted_at |-> Some(<<"1","9","7","0","-","0","1","-","1","0">>),
     experience |-> Some(<<"5"," ","y","e","a","r","s">>),
     salary_summary |-> Some(<<"$","1","4","5","K">>)]

Job3 ==
    [id |-> 3, title |-> <<"M","a","i","n","t","a","i","n">>, company |-> <<"B","o","l","t"," ","A","I">>,
     location |-> <<"s","f">>,
     posted_at |-> Some(<<"1","9","7","0","-","0","1","-","0","5">>),
     experience |-> NULL,
     salary_summary |-> Some(<<"{","'","a","m","o","u","n","t","'",":"," ","'","1","4","5","0","0","0",".","0","'","}">>)]

Job4 ==
    [id |-> 4, title |-> <<"A","I"," ","L","e","a","d">>, company |-> <<"B","o","l","t">>,
     location |-> <<"A","u","s","t","i","n">>,
     posted_at |-> Some(<<"s","o","o","n">>),
     experience |-> Some(<<"s","e","n","i","o","r">>),
     salary_summary |-> NULL]

Job5 ==
    [id |-> 5, title |-> <<"O","p","s">>, company |-> <<"C","a","t","o">>,
     location |-> <<"N","Y">>,
     posted_at |-> NULL,
     experience |-> Some(<<"1","0","+"," ","y","e","a","r","s">>),
     salary_summary |-> Some(<<"$","1","5","0","K">>)]

JobPool == {Job1, Job2, Job3, Job4, Job5}

MaxJobs == 2

\* the lists of at most MaxJobs different jobs
RECURSIVE ListsOfLen(_)
ListsOfLen(n) ==
    IF n = 0 THEN {<<>>}
    ELSE {Append(l, j) : l \in ListsOfLen(n - 1), j \in JobPool}

HasNoRepeat(l) == \A i, k \in DOMAIN l : i # k => l[i].id # l[k].id

JobLists ==
    {l \in UNION {ListsOfLen(n) : n \in 0..MaxJobs} : HasNoRepeat(l)}

SearchTexts ==
    {<<>>,
     <<"a","i">>,
     <<"@","c","o","m","p","a","n","y",":","a","c","m","e">>,
     <<"d","e","v"," ","@","l","o","c","a","t","i","o","n",":","s","f">>,
     <<"@","a","g","e",":","0"," ","d","e","v">>,
     <<" ","N","Y"," ">>}

\* the options of the Posted buttons that the day arithmetic of the model holds
AgeOptions == {NULL, Some(1)}

-----------------------------------------------------------------------------
(* fuzzyMatch is a pure function: its results for the job fields and the    *)
(* queries of the model are computed once and looked up afterwards          *)

ThresholdCompany == 95
ThresholdLocation == 85
ThresholdGeneral == 75

FieldTexts ==
    UNION {{j.title, j.company, j.location} : j \in JobPool}

ParsedTexts == {parseSearchText(t) : t \in SearchTexts}

QueryArgs ==
    UNION {{<<orNull(p.company), ThresholdCompany>>,
            <<orNull(p.location), ThresholdLocation>>,
            <<Some(normalizeForSearch(p.generalSearch)), ThresholdGeneral>>} :
              p \in ParsedTexts}

FuzzyTable ==
    [t \in FieldTexts |->
       [a \in {x \in QueryArgs : x[1] # NULL} |-> fuzzyMatch(t, a[1][1], a[2])]]

fuzzyMatchMemo(text, query, threshold) == FuzzyTable[text][<<Some(query), threshold>>]

-----------------------------------------------------------------------------
(* AllJobsList: cached timestamps, filters, sort *)

MsPerDay == 86400000

SortOptions == {"title", "company", "location", "recent", "experience", "salary"}

DatePrefix == <<"1","9","7","0","-","0","1","-">>

\* new Date(str).getTime() for date-only strings of January 1970
\* ("1970-01-DD", read as UTC midnight); NULL stands for NaN (Invalid Date)
dateGetTime(str) ==
    IF /\ Len(str) = Len(DatePrefix) + 2
       /\ StartsAt(str, DatePrefix, 1)
       /\ IsDigit(str[9]) /\ IsDigit(str[10])
       /\ parseIntDigits(Drop(str, 8), 0) \in 1..31
    THEN Some((parseIntDigits(Drop(str, 8), 0) - 1) * MsPerDay)
    ELSE NULL

\* the callback of jobs.map(...) in jobsWithTimestamps
withTimestamp(job) ==
    [id |-> job.id, title |-> job.title, company |-> job.company,
     location |-> job.location, posted_at |-> job.posted_at,
     experience |-> job.experience, salary_summary |-> job.salary_summary,
     _dateTimestamp |->
        IF job.posted_at # NULL /\ job.posted_at[1] # <<>>
        THEN dateGetTime(job.posted_at[1])
        ELSE NULL]

computeJobsWithTimestamps(js) == [i \in DOMAIN js |-> withTimestamp(js[i])]

\* parsedSearch.age !== null ? parsedSearch.age : ageFilter
\* a variant with || in place of ??: @age:0 falls back to the button value
effectiveAgeTruthy(parsed, filter) ==
    IF parsed.age # NULL /\ parsed.age # Some(0) THEN parsed.age ELSE filter

effectiveAge(parsed, filter) == IF parsed.age # NULL THEN parsed.age ELSE filter

\* the callback of the age filter
passesAge(job, cutoff) ==
    job._dateTimestamp # NULL /\ job._dateTimestamp[1] >= cutoff

passesCompany(job, company) ==
    fuzzyMatchMemo(job.company, company, ThresholdCompany)

passesLocation(job, location) ==
    fuzzyMatchMemo(job.location, location, ThresholdLocation)

\* a variant of the general search that looks at the title only
passesGeneralTitleOnly(job, generalSearchLower) ==
    fuzzyMatchMemo(job.title, generalSearchLower, ThresholdGeneral)

passesGeneral(job, generalSearchLower) ==
    \/ fuzzyMatchMemo(job.title, generalSearchLower, ThresholdGeneral)
    \/ fuzzyMatchMemo(job.company, generalSearchLower, ThresholdGeneral)
    \/ fuzzyMatchMemo(job.location, generalSearchLower, ThresholdGeneral)

\* the comparators of the sort switch
\* a variant that puts the oldest first
compareRecentOldestFirst(a, b) ==
    LET timestampA == a._dateTimestamp
        timestampB == b._dateTimestamp
    IN IF timestampA = NULL /\ timestampB = NULL THEN Num(0)
       ELSE IF timestampA = NULL THEN Num(1)
       ELSE IF timestampB = NULL THEN Num(-1)
       ELSE Num(timestampA[1] - timestampB[1])

compareRecent(a, b) ==
    LET timestampA == a._dateTimestamp
        timestampB == b._dateTimestamp
    IN IF timestampA = NULL /\ timestampB = NULL THEN Num(0)
       ELSE IF timestampA = NULL THEN Num(1)
       ELSE IF timestampB = NULL THEN Num(-1)
       ELSE Num(timestampB[1] - timestampA[1])

compareExperience(a, b) ==
    numSub(getExperienceValue(a.experience), getExperienceValue(b.experience))

compareSalary(a, b) ==
    Num(getSalaryValue(b.salary_summary) - getSalaryValue(a.salary_summary))

compareJobs(sortKey, a, b) ==
    CASE sortKey = "location" -> compareStrings(a.location, b.location)
      [] sortKey = "company" -> compareStrings(a.company, b.company)
      [] sortKey = "recent" -> compareRecent(a, b)
      [] sortKey = "experience" -> compareExperience(a, b)
      [] sortKey = "salary" -> compareSalary(a, b)
      [] OTHER -> compareStrings(a.title, b.title)

\* Array.prototype.sort is stable: x goes after the last element that the
\* comparator does not put after it
RECURSIVE insertStable(_, _, _)
insertStable(sorted, x, sortKey) ==
    IF sorted = <<>> THEN <<x>>
    ELSE LET last == sorted[Len(sorted)]
         IN IF cmpSign(compareJobs(sortKey, last, x)) > 0
            THEN Append(insertStable(Take(sorted, Len(sorted) - 1), x, sortKey), last)
            ELSE Append(sorted, x)

RECURSIVE sortJobs(_, _, _)
sortJobs(done, rest, sortKey) ==
    IF rest = <<>> THEN done
    ELSE sortJobs(insertStable(done, Head(rest), sortKey), Tail(rest), sortKey)

\* the filter part of processedJobs
filterJobs(withTs, parsed, filter, dateNow) ==
    LET byGeneral(filtered) ==
            IF trim(parsed.generalSearch) # <<>>
            THEN SelectSeq(filtered,
                    LAMBDA job :
                       passesGeneral(job, normalizeForSearch(parsed.generalSearch)))
            ELSE filtered
        byLocation(filtered) ==
            byGeneral(IF parsed.location # NULL
                      THEN SelectSeq(filtered,
                              LAMBDA job : passesLocation(job, parsed.location[1]))
                      ELSE filtered)
        byCompany(filtered) ==
            byLocation(IF parsed.company # NULL
                       THEN SelectSeq(filtered,
                               LAMBDA job : passesCompany(job, parsed.company[1]))
                       ELSE filtered)
        byAge(effective) ==
            byCompany(IF effective # NULL
                      THEN SelectSeq(withTs,
                              LAMBDA job :
                                 passesAge(job,
                                    dateNow - effective[1] * 24 * 60 * 60 * 1000))
                      ELSE withTs)
    IN byAge(effectiveAge(parsed, filter))

\* `let filtered = jobsWithTimestamps`: filtered is still the cached array
\* itself when no filter ran (each filter assigns a new array)
filteredAliasesCache(parsed, filter) ==
    /\ effectiveAge(parsed, filter) = NULL
    /\ parsed.company = NULL
    /\ parsed.location = NULL
    /\ trim(parsed.generalSearch) = <<>>

\* `const sorted = [...filtered]` is always a new array, so the in-place
\* sort() never reorders the cached array
sortedAliasesCache(parsed, filter) == FALSE

\* the cached array after a run of processedJobs that returned result
cacheAfterRun(withTs, parsed, filter, result) ==
    IF sortedAliasesCache(parsed, filter) THEN result ELSE withTs

computeProcessedJobs(withTs, parsed, sortKey, filter, dateNow) ==
    sortJobs(<<>>, filterJobs(withTs, parsed, filter, dateNow), sortKey)

-----------------------------------------------------------------------------
(* AllJobsList as a state machine *)

\* 1970-01-10T00:00:00.000Z; the clock advances by at most MaxTicks ms
Now0 == 9 * MsPerDay
MaxTicks == 1

NoCall == [op |-> "none"]

\* the Date.now() value a processedJobs run reads (none when no cutoff applies)
readNow(parsed, filter, dateNow, previous) ==
    IF effectiveAge(parsed, filter) # NULL THEN dateNow ELSE previous

Init ==
    /\ jobs \in JobLists
    /\ debouncedSearchText = <<>>
    /\ parsedSearch = parseSearchText(<<>>)
    /\ sortBy = "recent"
    /\ ageFilter = NULL
    /\ now = Now0
    /\ evalNow = Now0
    /\ processedJobs =
          computeProcessedJobs(computeJobsWithTimestamps(jobs),
                               parseSearchText(<<>>), "recent", NULL, Now0)
    /\ jobsWithTimestamps =
          cacheAfterRun(computeJobsWithTimestamps(jobs), parseSearchText(<<>>), NULL,
                        processedJobs)
    /\ clickedAge = NULL
    /\ call = NoCall
    /\ sidebar = NULL
    /\ searchBox = NULL
    /\ savedJobs = NULL
    /\ serverCache = NULL

\* the debounced search text changes: parsedSearch and processedJobs recompute
SearchDebounced(text) ==
    /\ text # debouncedSearchText
    /\ debouncedSearchText' = text
    /\ parsedSearch' = parseSearchText(text)
    /\ processedJobs' =
          computeProcessedJobs(jobsWithTimestamps, parsedSearch', sortBy, ageFilter, now)
    /\ jobsWithTimestamps' =
          cacheAfterRun(jobsWithTimestamps, parsedSearch', ageFilter, processedJobs')
    /\ evalNow' = readNow(parsedSearch', ageFilter, now, evalNow)
    /\ UNCHANGED <<jobs, sortBy, ageFilter, now, clickedAge, call, otherVars>>

handleSortChange(value) ==
    /\ value # sortBy
    /\ sortBy' = value
    /\ processedJobs' =
          computeProcessedJobs(jobsWithTimestamps, parsedSearch, value, ageFilter, now)
    /\ jobsWithTimestamps' =
          cacheAfterRun(jobsWithTimestamps, parsedSearch, ageFilter, processedJobs')
    /\ evalNow' = readNow(parsedSearch, ageFilter, now, evalNow)
    /\ UNCHANGED <<jobs, debouncedSearchText, parsedSearch, ageFilter, now, clickedAge, call,
                   otherVars>>

handleAgeFilterChange(value) ==
    /\ value # ageFilter
    /\ ageFilter' = value
    /\ processedJobs' =
          computeProcessedJobs(jobsWithTimestamps, parsedSearch, sortBy, value, now)
    /\ jobsWithTimestamps' =
          cacheAfterRun(jobsWithTimestamps, parsedSearch, value, processedJobs')
    /\ evalNow' = readNow(parsedSearch, value, now, evalNow)
    /\ clickedAge' = value
    /\ UNCHANGED <<jobs, debouncedSearchText, parsedSearch, sortBy, now, call, otherVars>>

\* a variant of the write that leaves a button selection alone
AgeSyncWriteUnlessSelected ==
    /\ parsedSearch.age # NULL
    /\ ageFilter = NULL
    /\ ageFilter' = parsedSearch.age

\* the guard of the @age effect and its setAgeFilter(parsedSearch.age)
AgeSyncWrite ==
    /\ parsedSearch.age # NULL
    /\ parsedSearch.age # ageFilter
    /\ ageFilter' = parsedSearch.age

\* the effect that copies @age into the 'age' query parameter
AgeSyncEffect ==
    /\ AgeSyncWrite
    /\ processedJobs' =
          computeProcessedJobs(jobsWithTimestamps, parsedSearch, sortBy,
                               parsedSearch.age, now)
    /\ jobsWithTimestamps' =
          cacheAfterRun(jobsWithTimestamps, parsedSearch, parsedSearch.age,
                        processedJobs')
    /\ evalNow' = readNow(parsedSearch, parsedSearch.age, now, evalNow)
    /\ UNCHANGED <<jobs, debouncedSearchText, parsedSearch, sortBy, now, clickedAge, call,
                   otherVars>>

\* time passes; no memo depends on it
Tick ==
    /\ now < Now0 + MaxTicks
    /\ now' = now + 1
    /\ UNCHANGED <<jobs, jobsWithTimestamps, debouncedSearchText, parsedSearch,
                   sortBy, ageFilter, evalNow, processedJobs, clickedAge, call, otherVars>>

Next ==
    \/ \E text \in SearchTexts : SearchDebounced(text)
    \/ \E value \in SortOptions : handleSortChange(value)
    \/ \E value \in AgeOptions : handleAgeFilterChange(value)
    \/ AgeSyncEffect
    \/ Tick

Spec == Init /\ [][Next]_vars

\* an effect whose dependencies changed runs after the commit
SpecFair == Spec /\ WF_ageFilter(AgeSyncWrite)

-----------------------------------------------------------------------------------------------------------------------------------------------------
(* new RegExp(source): the SyntaxError cases of the pattern grammar (no u    *)
(* flag; named groups and lookbehind do not occur in the inputs)             *)

\* the source of new RegExp(`\\b${escaped}\\b`, 'i')
wordPattern(escaped) == <<"\\", "b">> \o escaped \o <<"\\", "b">>

\* position of the ] that closes a class whose body starts at j, 0 if none
RECURSIVE classEnd(_, _)
classEnd(p, j) ==
    IF j > Len(p) THEN 0
    ELSE IF p[j] = "\\" THEN classEnd(p, j + 2)
    ELSE IF p[j] = "]" THEN j
    ELSE classEnd(p, j + 1)

\* position of the } of a quantifier {n} {n,} {n,m} opened at i, 0 if the
\* brace is a literal
braceEnd(p, i) ==
    LET second(d2) == IF d2 + 1 <= Len(p) /\ p[d2 + 1] = "}" THEN d2 + 1 ELSE 0
        first(d1) ==
            IF d1 < i + 1 \/ d1 + 1 > Len(p) THEN 0
            ELSE IF p[d1 + 1] = "}" THEN d1 + 1
            ELSE IF p[d1 + 1] = "," THEN second(RunEnd(p, d1 + 2, DigitSet))
            ELSE 0
    IN first(RunEnd(p, i + 1, DigitSet))

\* position after an optional lazy mark ? at i
SkipLazy(p, i) == IF i <= Len(p) /\ p[i] = "?" THEN i + 1 ELSE i

\* whether the pattern from position i on is rejected: canRepeat tells
\* whether a quantifier may follow, depth counts the open groups
RECURSIVE regExpSyntaxError(_, _, _, _)
regExpSyntaxError(p, i, canRepeat, depth) ==
    IF i > Len(p) THEN depth > 0
    ELSE CASE p[i] = "\\" ->
                \/ i = Len(p)
                \/ regExpSyntaxError(p, i + 2, p[i + 1] \notin {"b", "B"}, depth)
           [] p[i] = "[" ->
                LET closed(e) == e = 0 \/ regExpSyntaxError(p, e + 1, TRUE, depth)
                IN closed(classEnd(p, i + 1))
           [] p[i] = "(" ->
                IF i + 2 <= Len(p) /\ p[i + 1] = "?" /\ p[i + 2] \in {":", "=", "!"}
                THEN regExpSyntaxError(p, i + 3, FALSE, depth + 1)
                ELSE regExpSyntaxError(p, i + 1, FALSE, depth + 1)
           [] p[i] = ")" ->
                depth = 0 \/ regExpSyntaxError(p, i + 1, TRUE, depth - 1)
           [] p[i] \in {"*", "+", "?"} ->
                ~canRepeat \/ regExpSyntaxError(p, SkipLazy(p, i + 1), FALSE, depth)
           [] p[i] = "{" ->
                LET brace(e) ==
                        IF e = 0 THEN regExpSyntaxError(p, i + 1, TRUE, depth)
                        ELSE \/ ~canRepeat
                             \/ regExpSyntaxError(p, SkipLazy(p, e + 1), FALSE, depth)
                IN brace(braceEnd(p, i))
           [] p[i] \in {"|", "^", "$"} -> regExpSyntaxError(p, i + 1, FALSE, depth)
           [] OTHER -> regExpSyntaxError(p, i + 1, TRUE, depth)

newRegExpThrows(source) == regExpSyntaxError(source, 1, FALSE, 0)

\* whether queryWords.every(...) throws from word k on: the callback builds
\* wordRegex unless the word equals a text word, and every stops at the first
\* word without support
RECURSIVE multiWordThrows(_, _, _, _, _)
multiWordThrows(queryWords, k, textWords, normalizedText, threshold) ==
    IF k > Len(queryWords) THEN FALSE
    ELSE IF \E i \in DOMAIN textWords : textWords[i] = queryWords[k]
    THEN multiWordThrows(queryWords, k + 1, textWords, normalizedText, threshold)
    ELSE \/ newRegExpThrows(wordPattern(escapeRegExp(queryWords[k])))
         \/ /\ multiWordHit(queryWords[k], textWords, normalizedText, threshold)
            /\ multiWordThrows(queryWords, k + 1, textWords, normalizedText, threshold)

\* whether fuzzyMatch(text, query, threshold) ends in an exception
fuzzyMatchThrows(text, query, threshold) ==
    LET words(normalizedText, queryWords) ==
            /\ Len(queryWords) # 1
            /\ multiWordThrows(queryWords, 1, splitWords(normalizedText),
                               normalizedText, threshold)
        normalized(normalizedText, normalizedQuery) ==
            /\ normalizedText # normalizedQuery
            /\ ~RatioAtLeast(similarityRatio(normalizedText, normalizedQuery), threshold)
            /\ \/ newRegExpThrows(wordPattern(escapeRegExp(normalizedQuery)))
               \/ /\ ~wordBoundaryTest(escapeRegExp(normalizedQuery), normalizedText)
                  /\ ~(Len(normalizedQuery) >= 3
                       /\ includes(normalizedText, normalizedQuery))
                  /\ words(normalizedText, splitWords(normalizedQuery))
    IN normalized(trim(toLowerCase(text)), trim(toLowerCase(query)))

-----
(* Direct applications of the pure functions *)

FuzzyTexts ==
    {<<"m","a","i","n","t","a","i","n">>,
     <<"d","a","v","i","d"," ","a","i">>,
     <<"C","+","+"," ","E","n","g","i","n","e","e","r">>,
     <<"O","p","e","n","A","I">>,
     <<"O","p","e","n"," ","A","I"," ","I","n","c">>,
     <<"s","e","n","i","o","r"," ","e","n","g","i","n","e","e","r">>,
     <<"A","I">>,
     <<" ","a","i"," ">>,
     <<"D","a","i","l","y">>,
     <<"N","o","d","e"," ","j","s">>}

FuzzyQueries ==
    {<<"a","i">>,
     <<"a">>,
     <<"C","+","+">>,
     <<"o","p","e","n","a","i">>,
     <<"o","p","n","a","i">>,
     <<"s","e","n","i","o","r"," ","e","n","g","i","n","e","r">>,
     <<"i","a">>,
     <<" ","A","I"," ">>,
     <<"d","a","i","l">>,
     <<"N","o","d","e",".","j","s">>,
     <<"C","+","+"," ","d","e","v">>,
     <<"e","n","g","i","n","e","r"," ","s","e","n","i","o","r">>,
     <<"a","i"," ","o","p","e","n">>}

\* the default 0.6, the thresholds of the list, and 1.5 (outside [0,1])
FuzzyThresholds == {60, ThresholdGeneral, ThresholdCompany, 150}

\* search inputs: at most MaxTokens tokens joined by single spaces
ParseTokens ==
    {<<>>,
     <<"@","a","g","e",":","7">>,
     <<"@","A","g","e",":","3">>,
     <<"@","c","o","m","p","a","n","y",":","A","c","m","e">>,
     <<"@","c","o","m","p","a","n","y",":","O","p","e","n","A","I">>,
     <<"@","l","o","c","a","t","i","o","n",":","R","e","m","o","t","e">>,
     <<"@","C","o","m","p","a","n","y",":","A","c","m","e"," ","@","L","O","C","A","T","I","O","N",":","R","e","m","o","t","e">>,
     <<"s","e","n","i","o","r"," ","e","n","g","i","n","e","e","r">>,
     <<"s","e","n","i","o","r">>,
     <<"r","e","a","c","t">>}

MaxTokens == 3

RECURSIVE TokenInputs(_)
TokenInputs(n) ==
    IF n = 1 THEN ParseTokens
    ELSE {t \o <<" ">> \o u : t \in TokenInputs(n - 1), u \in ParseTokens}

ParseInputs == UNION {TokenInputs(n) : n \in 1..MaxTokens}

\* salary summaries, each built from a description of its shape
PlainAmounts ==
    {[text |-> <<"1","4","5">>, n |-> 145],
     [text |-> <<"1","5","0">>, n |-> 150],
     [text |-> <<"1","7","5">>, n |-> 175],
     [text |-> <<"1","3","0",",","9","0","0">>, n |-> 130900]}

DictAmounts ==
    {[text |-> <<"1","6","0","0","0","0",".","0">>, tenths |-> 1600000],
     [text |-> <<"1","4","0","9","0","0",".","5">>, tenths |-> 1409005],
     [text |-> <<"0">>, tenths |-> 0]}

SalaryShapes ==
    {[kind |-> "absent"], [kind |-> "empty"]}
    \cup {[kind |-> "text", text |-> t] :
             t \in {<<"C","o","m","p","e","t","i","t","i","v","e">>,
                    <<"D","O","E">>}}
    \cup {[kind |-> "dict", amount |-> a, quote |-> q, unit |-> u] :
             a \in DictAmounts, q \in QuoteChars, u \in BOOLEAN}
    \cup {[kind |-> "range", min |-> lo, max |-> hi, kMin |-> k1, kMax |-> k2,
           dash |-> d, currency |-> c, spaced |-> sp] :
             lo \in PlainAmounts, hi \in PlainAmounts, k1 \in BOOLEAN, k2 \in BOOLEAN,
             d \in DashChars, c \in {<<>>, <<"$">>}, sp \in BOOLEAN}
    \cup {[kind |-> "single", amount |-> a, k |-> k1, currency |-> c] :
             a \in PlainAmounts, k1 \in BOOLEAN,
             c \in {<<>>, <<"$">>, <<"EURO">>, <<"POUND">>}}

KSuffix(k) == IF k THEN <<"K">> ELSE <<>>

\* the salary_summary value of a shape
SalaryText(shape) ==
    CASE shape.kind = "absent" -> NULL
      [] shape.kind = "empty" -> Some(<<>>)
      [] shape.kind = "text" -> Some(shape.text)
      [] shape.kind = "dict" ->
           Some(<<"{">>
                \o (IF shape.unit
                    THEN <<"'","u","n","i","t","'",":"," ","'","U","S","D","'",","," ">>
                    ELSE <<>>)
                \o <<shape.quote>> \o AmountKey \o <<shape.quote, ":", " ", shape.quote>>
                \o shape.amount.text \o <<shape.quote, "}">>)
      [] shape.kind = "range" ->
           Some(shape.currency \o shape.min.text \o KSuffix(shape.kMin)
                \o (IF shape.spaced THEN <<" ", shape.dash, " ">> ELSE <<shape.dash>>)
                \o shape.currency \o shape.max.text \o KSuffix(shape.kMax))
      [] OTHER ->
           Some(shape.currency \o shape.amount.text \o KSuffix(shape.k))

\* strings of at most MaxStrLen characters over two letters
MaxStrLen == 3
ShortStrings == UNION {[1..n -> {"a", "b"}] : n \in 0..MaxStrLen}

InitCalls ==
    /\ jobs = <<>>
    /\ jobsWithTimestamps = <<>>
    /\ debouncedSearchText = <<>>
    /\ parsedSearch = parseSearchText(<<>>)
    /\ sortBy = "recent"
    /\ ageFilter = NULL
    /\ now = Now0
    /\ evalNow = Now0
    /\ processedJobs = <<>>
    /\ clickedAge = NULL
    /\ call = NoCall
    /\ sidebar = NULL
    /\ searchBox = NULL
    /\ savedJobs = NULL
    /\ serverCache = NULL

CallFuzzyMatch ==
    /\ call.op = "none"
    /\ \E text \in FuzzyTexts, query \in FuzzyQueries, threshold \in FuzzyThresholds :
          call' = [op |-> "fuzzyMatch", text |-> text, query |-> query,
                   threshold |-> threshold,
                   threw |-> fuzzyMatchThrows(text, query, threshold),
                   result |-> IF fuzzyMatchThrows(text, query, threshold)
                              THEN NULL
                              ELSE Some(fuzzyMatch(text, query, threshold))]
    /\ UNCHANGED <<pipelineVars, otherVars>>

CallParseSearchText ==
    /\ call.op = "none"
    /\ \E searchText \in ParseInputs :
          call' = [op |-> "parseSearchText", searchText |-> searchText,
                   result |-> parseSearchText(searchText)]
    /\ UNCHANGED <<pipelineVars, otherVars>>

CallGetSalaryValue ==
    /\ call.op = "none"
    /\ \E shape \in SalaryShapes :
          call' = [op |-> "getSalaryValue", shape |-> shape,
                   salarySummary |-> SalaryText(shape),
                   result |-> getSalaryValue(SalaryText(shape))]
    /\ UNCHANGED <<pipelineVars, otherVars>>

CallSimilarityRatio ==
    /\ call.op = "none"
    /\ \E str1 \in ShortStrings, str2 \in ShortStrings :
          call' = [op |-> "similarityRatio", str1 |-> str1, str2 |-> str2,
                   distance |-> levenshteinDistance(str1, str2),
                   result |-> similarityRatio(str1, str2)]
    /\ UNCHANGED <<pipelineVars, otherVars>>

\* marker.ats_id || marker.id || marker.url || `${company}-${title}-${location}`
markerKey(marker) ==
    IF marker.ats_id # <<>> THEN marker.ats_id
    ELSE IF marker.id # <<>> THEN marker.id
    ELSE IF marker.url # <<>> THEN marker.url
    ELSE marker.company \o <<"-">> \o marker.title \o <<"-">> \o marker.location

\* marker.posted_at ? Date.parse(marker.posted_at) : Number.NEGATIVE_INFINITY
markerDate(marker) ==
    IF marker.posted_at = NULL \/ marker.posted_at = Some(<<>>) THEN NegInfinity
    ELSE IF dateGetTime(marker.posted_at[1]) = NULL THEN NaN
    ELSE Num(dateGetTime(marker.posted_at[1])[1])

\* a > b on numbers (false whenever one side is NaN)
numGreater(a, b) ==
    /\ a.k = "num"
    /\ \/ b.k = "neginf"
       \/ b.k = "num" /\ a.n > b.n

\* dedupeJobs: byKey is the Map, kept as the sequence of its values in
\* insertion order (set() on a present key keeps the key's position)
dedupeJobs(markers) ==
    LET RECURSIVE forEach(_, _)
        forEach(byKey, rest) ==
            IF rest = <<>> THEN byKey
            ELSE LET put(marker, hits) ==
                         IF hits = {} THEN Append(byKey, marker)
                         ELSE IF numGreater(markerDate(marker),
                                            markerDate(byKey[SetMin(hits)]))
                              THEN [byKey EXCEPT ![SetMin(hits)] = marker]
                              ELSE byKey
                 IN forEach(put(Head(rest),
                                {i \in DOMAIN byKey :
                                    markerKey(byKey[i]) = markerKey(Head(rest))}),
                            Tail(rest))
    IN forEach(<<>>, markers)

\* the markers the model draws from: three with the ats_id "k" and different
\* dates (one unparsable), one whose id is "k", one keyed by its url, one
\* keyed by company-title-location
Marker(ats_id, id, url, posted_at) ==
    [ats_id |-> ats_id, id |-> id, url |-> url,
     company |-> <<"C">>, title |-> <<"T">>, location |-> <<"L">>,
     posted_at |-> posted_at]

MarkerPool ==
    {Marker(<<"k">>, <<"1">>, <<"u">>, Some(<<"1","9","7","0","-","0","1","-","0","5">>)),
     Marker(<<"k">>, <<"2">>, <<"u">>, Some(<<"1","9","7","0","-","0","1","-","1","0">>)),
     Marker(<<"k">>, <<"3">>, <<"u">>, Some(<<"s","o","o","n">>)),
     Marker(<<>>, <<"k">>, <<"u">>, NULL),
     Marker(<<>>, <<>>, <<"u">>, Some(<<"1","9","7","0","-","0","1","-","0","5">>)),
     Marker(<<>>, <<>>, <<>>, NULL)}

MaxMarkers == 3

MarkerLists == UNION {[1..n -> MarkerPool] : n \in 0..MaxMarkers}

CallDedupeJobs ==
    /\ call.op = "none"
    /\ \E markers \in MarkerLists :
          call' = [op |-> "dedupeJobs", markers |-> markers,
                   result |-> dedupeJobs(markers)]
    /\ UNCHANGED <<pipelineVars, otherVars>>

\* slugify(text): lower case, trim, drop every character outside [\w\s-],
\* turn each run of white space, _ and - into one -, strip the outer -
slugify(text) ==
    LET isSeparator(c) == IsSpace(c) \/ c = "_" \/ c = "-"
        RECURSIVE hyphenate(_, _)
        hyphenate(s, inRun) ==
            IF s = <<>> THEN <<>>
            ELSE IF isSeparator(Head(s))
                 THEN (IF inRun THEN <<>> ELSE <<"-">>) \o hyphenate(Tail(s), TRUE)
                 ELSE <<Head(s)>> \o hyphenate(Tail(s), FALSE)
        strip(s) ==
            SubSeq(s, IF s # <<>> /\ Head(s) = "-" THEN 2 ELSE 1,
                      IF s # <<>> /\ s[Len(s)] = "-" THEN Len(s) - 1 ELSE Len(s))
    IN strip(hyphenate(SelectSeq(trim(toLowerCase(text)),
                                 LAMBDA c : IsWordChar(c) \/ IsSpace(c) \/ c = "-"),
                       FALSE))

\* generateHash(text): hash = ((hash << 5) - hash) + char, kept to 32 bits,
\* then Math.abs(hash).toString(36).  The 32-bit value is held as two
\* 16-bit halves [hi, lo] (two's complement)
generateHash(text) ==
    LET charCodeAt(c) ==
            IF IsDigit(c) THEN 48 + DigitValue(c)
            ELSE IF IsUpper(c) THEN 64 + IndexIn(c, UpperChars)
            ELSE IF c \in LowerSet THEN 96 + IndexIn(c, LowerChars)
            ELSE IF c = " " THEN 32 ELSE IF c = "-" THEN 45 ELSE IF c = "." THEN 46
            ELSE IF c = "/" THEN 47 ELSE IF c = ":" THEN 58 ELSE 95
        step(h, code) ==
            LET lo == h.lo * 31 + code
            IN [hi |-> (h.hi * 31 + lo \div 65536) % 65536, lo |-> lo % 65536]
        RECURSIVE loop(_, _)
        loop(h, i) == IF i > Len(text) THEN h ELSE loop(step(h, charCodeAt(text[i])), i + 1)
        abs(h) ==
            IF h.hi < 32768 THEN h
            ELSE IF h.lo = 0 THEN [hi |-> (65536 - h.hi) % 65536, lo |-> 0]
            ELSE [hi |-> 65535 - h.hi, lo |-> 65536 - h.lo]
        digit36(d) == IF d < 10 THEN DigitChars[d + 1] ELSE LowerChars[d - 9]
        RECURSIVE toString36(_)
        toString36(h) ==
            LET low == (h.hi % 36) * 65536 + h.lo
                quotient == [hi |-> h.hi \div 36, lo |-> low \div 36]
            IN IF quotient.hi = 0 /\ quotient.lo = 0 THEN <<digit36(low % 36)>>
               ELSE Append(toString36(quotient), digit36(low % 36))
    IN toString36(abs(loop([hi |-> 0, lo |-> 0], 1)))

\* generateJobSlug(title, id, company, atsId, url)
generateJobSlug(title, id, company, atsId, url) ==
    slugify(company) \o <<"/">> \o slugify(title) \o <<"-">>
       \o generateHash(IF id # <<>> THEN id ELSE IF atsId # <<>> THEN atsId ELSE url)

jobSlug(job) == generateJobSlug(job.title, job.id, job.company, job.ats_id, job.url)

\* buildJobIndex(jobs): the Map from slug to job; a later job with the same
\* slug replaces the earlier one
buildJobIndex(jobList) ==
    [slug \in {jobSlug(jobList[i]) : i \in DOMAIN jobList} |->
        jobList[SetMax({i \in DOMAIN jobList : jobSlug(jobList[i]) = slug})]]

\* index.get(`${companySlug}/${valueSlug}`); NULL stands for undefined
findJobBySlugFast(index, companySlug, valueSlug) ==
    IF companySlug \o <<"/">> \o valueSlug \in DOMAIN index
    THEN Some(index[companySlug \o <<"/">> \o valueSlug])
    ELSE NULL

\* jobs.find(job => ...): the first job whose slug splits at its one "/" into
\* companySlug and valueSlug
findJobBySlug(jobList, companySlug, valueSlug) ==
    LET matches(expectedSlug) ==
            LET slashes == {p \in DOMAIN expectedSlug : expectedSlug[p] = "/"}
            IN /\ Cardinality(slashes) = 1
               /\ Take(expectedSlug, SetMin(slashes) - 1) = companySlug
               /\ Drop(expectedSlug, SetMin(slashes)) = valueSlug
        first(hits) == IF hits = {} THEN NULL ELSE Some(jobList[SetMin(hits)])
    IN first({i \in DOMAIN jobList : matches(jobSlug(jobList[i]))})

\* the jobs the lookups draw from: two that differ in the location only, one
\* whose title and company give the same slugs in another spelling, one
\* hashed by its ats_id, one with nothing to build a slug from
SlugJob(title, id, company, ats_id, url, location) ==
    [title |-> title, id |-> id, company |-> company, ats_id |-> ats_id,
     url |-> url, location |-> location]

SlugJobPool ==
    {SlugJob(<<"D","e","v"," ","O","p","s">>, <<"1">>, <<"A","c","m","e">>, <<>>, <<>>, <<"S","F">>),
     SlugJob(<<"D","e","v"," ","O","p","s">>, <<"1">>, <<"A","c","m","e">>, <<>>, <<>>, <<"N","Y">>),
     SlugJob(<<"d","e","v","_","-","o","p","s","!">>, <<"1">>, <<" ","A","C","M","E",".">>, <<>>, <<>>, <<"S","F">>),
     SlugJob(<<"D","e","v">>, <<>>, <<"B","o","l","t"," ","A","I">>, <<"a","7","-","z","z","z","z","z">>, <<>>, <<"S","F">>),
     SlugJob(<<>>, <<>>, <<>>, <<>>, <<>>, <<"S","F">>)}

MaxSlugJobs == 2

SlugJobLists == UNION {[1..n -> SlugJobPool] : n \in 0..MaxSlugJobs}

\* the path segments looked up: those of the pool's slugs and two others
SlugSegments ==
    UNION {{slugify(j.company), Drop(jobSlug(j), Len(slugify(j.company)) + 1)} :
              j \in SlugJobPool} \cup {<<"d","e","v">>}

CallFindJobBySlug ==
    /\ call.op = "none"
    /\ \E jobList \in SlugJobLists : \E companySlug, valueSlug \in SlugSegments :
          call' = [op |-> "findJobBySlug", jobs |-> jobList,
                   companySlug |-> companySlug, valueSlug |-> valueSlug,
                   fast |-> findJobBySlugFast(buildJobIndex(jobList), companySlug,
                                              valueSlug),
                   linear |-> findJobBySlug(jobList, companySlug, valueSlug)]
    /\ UNCHANGED <<pipelineVars, otherVars>>

NextCalls ==
    \/ CallFuzzyMatch
    \/ CallParseSearchText
    \/ CallGetSalaryValue
    \/ CallSimilarityRatio
    \/ CallDedupeJobs
    \/ CallFindJobBySlug

SpecCalls == InitCalls /\ [][NextCalls]_vars

-----------------------------------------------------------------------------
(* JobListSidebar: the filter and sort of the sidebar list *)

\* the query pipeline and the direct applications at rest
PipelineIdle ==
    /\ jobs = <<>>
    /\ jobsWithTimestamps = <<>>
    /\ debouncedSearchText = <<>>
    /\ parsedSearch = parseSearchText(<<>>)
    /\ sortBy = "recent"
    /\ ageFilter = NULL
    /\ now = Now0
    /\ evalNow = Now0
    /\ processedJobs = <<>>
    /\ clickedAge = NULL
    /\ call = NoCall

\* a.localeCompare(b) with the default options: the primary weights decide;
\* on a primary tie the first case difference does, lower case first
localeCompare(a, b) ==
    LET tertiary(primary) ==
            IF primary # 0 THEN primary
            ELSE LET diff == {i \in DOMAIN a : a[i] # b[i]}
                 IN IF diff = {} THEN 0
                    ELSE IF IsLower(a[SetMin(diff)]) THEN -1 ELSE 1
    IN tertiary(localeCompareBase(a, b))

\* the comparators of the sidebar's sort switch
sidebarCompare(sortKey, a, b) ==
    CASE sortKey = "company" -> Num(localeCompare(a.company, b.company))
      [] sortKey = "location" -> Num(localeCompare(a.location, b.location))
      [] sortKey = "title" -> Num(localeCompare(a.title, b.title))
      [] sortKey = "recent" -> compareRecent(withTimestamp(a), withTimestamp(b))
      [] sortKey = "experience" -> compareExperience(a, b)
      [] sortKey = "salary" -> compareSalary(a, b)

\* the processedJobs memo of the sidebar
sidebarProcessedJobs(deduplicatedJobs, debouncedText, sortKey) ==
    LET RECURSIVE insert(_, _)
        insert(sorted, x) ==
            IF sorted = <<>> THEN <<x>>
            ELSE IF cmpSign(sidebarCompare(sortKey, sorted[Len(sorted)], x)) > 0
                 THEN Append(insert(Take(sorted, Len(sorted) - 1), x),
                             sorted[Len(sorted)])
                 ELSE Append(sorted, x)
        RECURSIVE sort(_, _)
        sort(done, rest) ==
            IF rest = <<>> THEN done ELSE sort(insert(done, Head(rest)), Tail(rest))
        ordered(filtered) ==
            IF sortKey # "company" \/ trim(debouncedText) # <<>>
            THEN sort(<<>>, filtered)
            ELSE filtered
    IN ordered(IF trim(debouncedText) # <<>>
               THEN SelectSeq(deduplicatedJobs,
                       LAMBDA job :
                          passesGeneral(job, toLowerCase(trim(debouncedText))))
               ELSE deduplicatedJobs)

\* the search texts typed into the sidebar
SidebarTexts == {<<>>, <<"a","i">>, <<"d","e","v">>}

InitSidebar ==
    /\ PipelineIdle
    /\ \E deduplicatedJobs \in JobLists :
          sidebar = [deduplicatedJobs |-> deduplicatedJobs,
                     debouncedSearchText |-> <<>>,
                     sortBy |-> "company",
                     processedJobs |->
                        sidebarProcessedJobs(deduplicatedJobs, <<>>, "company")]
    /\ searchBox = NULL
    /\ savedJobs = NULL
    /\ serverCache = NULL

\* the debounced search text of the sidebar changes
SidebarSearchDebounced(text) ==
    /\ text # sidebar.debouncedSearchText
    /\ sidebar' = [sidebar EXCEPT
                      !.debouncedSearchText = text,
                      !.processedJobs =
                          sidebarProcessedJobs(sidebar.deduplicatedJobs, text,
                                               sidebar.sortBy)]
    /\ UNCHANGED <<pipelineVars, call, searchBox, savedJobs, serverCache>>

\* a click on a sort option of the sidebar
SidebarSetSortBy(value) ==
    /\ value # sidebar.sortBy
    /\ sidebar' = [sidebar EXCEPT
                      !.sortBy = value,
                      !.processedJobs =
                          sidebarProcessedJobs(sidebar.deduplicatedJobs,
                                               sidebar.debouncedSearchText, value)]
    /\ UNCHANGED <<pipelineVars, call, searchBox, savedJobs, serverCache>>

NextSidebar ==
    \/ \E text \in SidebarTexts : SidebarSearchDebounced(text)
    \/ \E value \in SortOptions : SidebarSetSortBy(value)

SpecSidebar == InitSidebar /\ [][NextSidebar]_vars

-----------------------------------------------------------------------------
(* saved-jobs-storage and useSavedJobs.  The item 'saved-jobs' of            *)
(* localStorage is NULL (missing) or Some(text)                              *)

\* JSON.stringify of an array of strings without characters to escape
JSONstringify(ids) ==
    LET RECURSIVE items(_)
        items(k) ==
            IF k > Len(ids) THEN <<>>
            ELSE (IF k > 1 THEN <<",">> ELSE <<>>) \o <<"\"">> \o ids[k] \o <<"\"">>
                    \o items(k + 1)
    IN <<"[">> \o items(1) \o <<"]">>

\* the JSON texts of the model that are valid and not arrays
NonArrayJSON == {<<"{","}">>, <<"n","u","l","l">>, <<"7">>}

\* JSON.parse(text): [kind |-> "array", value |-> the strings], "other" for a
\* valid text that is no array, "throws" for a SyntaxError
JSONparse(text) ==
    LET RECURSIVE elements(_, _, _)
        \* s: the text after an opening quote; cur: the string read so far
        elements(s, cur, acc) ==
            IF s = <<>> THEN [kind |-> "throws", value |-> <<>>]
            ELSE IF Head(s) # "\"" THEN elements(Tail(s), Append(cur, Head(s)), acc)
            ELSE IF Tail(s) = <<"]">> THEN [kind |-> "array", value |-> Append(acc, cur)]
            ELSE IF Len(s) >= 4 /\ s[2] = "," /\ s[3] = "\""
                 THEN elements(Drop(s, 3), <<>>, Append(acc, cur))
                 ELSE [kind |-> "throws", value |-> <<>>]
    IN IF text = <<"[","]">> THEN [kind |-> "array", value |-> <<>>]
       ELSE IF Len(text) >= 2 /\ text[1] = "[" /\ text[2] = "\""
            THEN elements(Drop(text, 2), <<>>, <<>>)
            ELSE IF text \in NonArrayJSON THEN [kind |-> "other", value |-> <<>>]
                 ELSE [kind |-> "throws", value |-> <<>>]

\* getSavedJobIds(): [] for a missing or empty item, for a text that does not
\* parse (the catch) and for a value that is no array
getSavedJobIds(stored) ==
    IF stored = NULL \/ stored = Some(<<>>) THEN <<>>
    ELSE IF JSONparse(stored[1]).kind = "array" THEN JSONparse(stored[1]).value
    ELSE <<>>

\* Array.from(new Set(ids)): the first occurrence of each element
RECURSIVE arrayFromSet(_)
arrayFromSet(ids) ==
    IF ids = <<>> THEN <<>>
    ELSE LET init == arrayFromSet(Take(ids, Len(ids) - 1))
         IN IF ids[Len(ids)] \in Range(init) THEN init ELSE Append(init, ids[Len(ids)])

\* a variant of saveJobId that pushes the id onto the array
saveJobIdPush(stored, atsId) ==
    Some(JSONstringify(Append(getSavedJobIds(stored), atsId)))

\* saveJobId(atsId): the item afterwards
saveJobId(stored, atsId) ==
    Some(JSONstringify(arrayFromSet(Append(getSavedJobIds(stored), atsId))))

\* removeSavedJobId(atsId): the item afterwards
removeSavedJobId(stored, atsId) ==
    Some(JSONstringify(SelectSeq(arrayFromSet(getSavedJobIds(stored)),
                                 LAMBDA id : id # atsId)))

\* isSaved(atsId) of the storage module
isSaved(stored, atsId) == atsId \in Range(getSavedJobIds(stored))

\* clearAllSavedJobs(): localStorage.removeItem
clearAllSavedJobs == NULL

\* the ats_ids of the model
AtsIds == {<<"a">>, <<"b","2">>, <<"c">>}

\* the items found in localStorage at the start: missing, empty, not JSON,
\* JSON but no array, and arrays written by this or another program
StoredAtStart ==
    {NULL, Some(<<>>), Some(<<"o","o","p","s">>), Some(<<"[","\"","a">>),
     Some(<<"{","}">>), Some(<<"n","u","l","l">>),
     Some(JSONstringify(<<>>)), Some(JSONstringify(<<<<"a">>>>)),
     Some(JSONstringify(<<<<"b","2">>, <<"a">>>>)),
     Some(JSONstringify(<<<<"a">>, <<"a">>>>))}

\* history: the ids read from the item at the start, the last operation on
\* each id ("none", "save", "remove", "clear") and the last call with the ids
\* stored before it
NoOps == [id \in AtsIds |-> "none"]

InitStorage ==
    /\ PipelineIdle
    /\ sidebar = NULL
    /\ searchBox = NULL
    /\ serverCache = NULL
    /\ \E stored \in StoredAtStart :
          savedJobs = [storage |-> stored, instances |-> <<>>,
                       atStart |-> getSavedJobIds(stored), lastOp |-> NoOps,
                       last |-> [op |-> "none", id |-> <<>>, before |-> <<>>]]

CallSaveJobId(atsId) ==
    /\ savedJobs' = [savedJobs EXCEPT
                        !.storage = saveJobId(savedJobs.storage, atsId),
                        !.lastOp[atsId] = "save",
                        !.last = [op |-> "save", id |-> atsId,
                                  before |-> getSavedJobIds(savedJobs.storage)]]
    /\ UNCHANGED <<pipelineVars, call, sidebar, searchBox, serverCache>>

CallRemoveSavedJobId(atsId) ==
    /\ savedJobs' = [savedJobs EXCEPT
                        !.storage = removeSavedJobId(savedJobs.storage, atsId),
                        !.lastOp[atsId] = "remove",
                        !.last = [op |-> "remove", id |-> atsId,
                                  before |-> getSavedJobIds(savedJobs.storage)]]
    /\ UNCHANGED <<pipelineVars, call, sidebar, searchBox, serverCache>>

CallClearAllSavedJobs ==
    /\ savedJobs' = [savedJobs EXCEPT
                        !.storage = clearAllSavedJobs,
                        !.lastOp = [id \in AtsIds |-> "clear"],
                        !.last = [op |-> "clear", id |-> <<>>,
                                  before |-> getSavedJobIds(savedJobs.storage)]]
    /\ UNCHANGED <<pipelineVars, call, sidebar, searchBox, serverCache>>

NextStorage ==
    \/ \E atsId \in AtsIds : CallSaveJobId(atsId)
    \/ \E atsId \in AtsIds : CallRemoveSavedJobId(atsId)
    \/ CallClearAllSavedJobs

SpecStorage == InitStorage /\ [][NextStorage]_vars

-----------------------------------------------------------------------------
(* useSavedJobs: each component that calls the hook has its own savedJobIds  *)
(* state.  A 'storage' event is delivered only to windows other than the one *)
(* that wrote the item, so a write of this tab reaches no listener of it.    *)

\* instance 1: the SavedJobsList, instance 2: a SaveJobButton
HookInstances == {1, 2}

\* useState([]) before the mount effect has run
Unmounted == [mounted |-> FALSE, savedJobIds |-> <<>>]

InitHooks ==
    /\ PipelineIdle
    /\ sidebar = NULL
    /\ searchBox = NULL
    /\ serverCache = NULL
    /\ \E stored \in StoredAtStart :
          savedJobs = [storage |-> stored,
                       instances |-> [i \in HookInstances |-> Unmounted],
                       last |-> [op |-> "none", instance |-> 0, id |-> <<>>,
                                 wasSaved |-> FALSE]]

HookUnchanged == UNCHANGED <<pipelineVars, call, sidebar, searchBox, serverCache>>

\* useEffect(() => setSavedJobIds(getSavedJobIds()), []) and the registration
\* of the 'storage' listener
HookMountEffect(i) ==
    /\ ~savedJobs.instances[i].mounted
    /\ savedJobs' = [savedJobs EXCEPT
           !.instances[i] = [mounted |-> TRUE,
                             savedJobIds |-> getSavedJobIds(savedJobs.storage)],
           !.last = [op |-> "mount", instance |-> i, id |-> <<>>, wasSaved |-> FALSE]]
    /\ HookUnchanged

\* saveJob / unsaveJob of instance i: the storage call, then
\* setSavedJobIds(getSavedJobIds()) of this instance only
hookWrite(i, op, stored, atsId) ==
    [savedJobs EXCEPT
        !.storage = stored,
        !.instances[i].savedJobIds = getSavedJobIds(stored),
        !.last = [op |-> op, instance |-> i, id |-> atsId,
                  wasSaved |-> isSaved(savedJobs.storage, atsId)]]

saveJob(i, atsId) ==
    /\ savedJobs.instances[i].mounted
    /\ savedJobs' = hookWrite(i, "saveJob", saveJobId(savedJobs.storage, atsId), atsId)
    /\ HookUnchanged

unsaveJob(i, atsId) ==
    /\ savedJobs.instances[i].mounted
    /\ savedJobs' = hookWrite(i, "unsaveJob",
                              removeSavedJobId(savedJobs.storage, atsId), atsId)
    /\ HookUnchanged

\* toggleSave: isSaved of the hook reads the instance's own savedJobIds
toggleSave(i, atsId) ==
    /\ savedJobs.instances[i].mounted
    /\ savedJobs' =
          IF atsId \in Range(savedJobs.instances[i].savedJobIds)
          THEN hookWrite(i, "toggleUnsave",
                         removeSavedJobId(savedJobs.storage, atsId), atsId)
          ELSE hookWrite(i, "toggleSave",
                         saveJobId(savedJobs.storage, atsId), atsId)
    /\ HookUnchanged

clearAll(i) ==
    /\ savedJobs.instances[i].mounted
    /\ savedJobs' = [savedJobs EXCEPT
           !.storage = clearAllSavedJobs,
           !.instances[i].savedJobIds = <<>>,
           !.last = [op |-> "clearAll", instance |-> i, id |-> <<>>,
                     wasSaved |-> FALSE]]
    /\ HookUnchanged

\* another tab saves or removes an id: handleStorageChange of every mounted
\* instance of this tab runs setSavedJobIds(getSavedJobIds())
handleStorageChange(save, atsId) ==
    /\ \E i \in HookInstances : savedJobs.instances[i].mounted
    /\ LET stored == IF save THEN saveJobId(savedJobs.storage, atsId)
                     ELSE removeSavedJobId(savedJobs.storage, atsId)
       IN savedJobs' = [savedJobs EXCEPT
              !.storage = stored,
              !.instances = [i \in HookInstances |->
                  IF savedJobs.instances[i].mounted
                  THEN [mounted |-> TRUE, savedJobIds |-> getSavedJobIds(stored)]
                  ELSE savedJobs.instances[i]],
              !.last = [op |-> "otherTab", instance |-> 0, id |-> atsId,
                        wasSaved |-> FALSE]]
    /\ HookUnchanged

NextHooks ==
    \/ \E i \in HookInstances : HookMountEffect(i)
    \/ \E i \in HookInstances, atsId \in AtsIds : saveJob(i, atsId)
    \/ \E i \in HookInstances, atsId \in AtsIds : unsaveJob(i, atsId)
    \/ \E i \in HookInstances, atsId \in AtsIds : toggleSave(i, atsId)
    \/ \E i \in HookInstances : clearAll(i)
    \/ \E save \in BOOLEAN, atsId \in AtsIds : handleStorageChange(save, atsId)

SpecHooks == InitHooks /\ [][NextHooks]_vars

-----------------------------------------------------------------------------
(* loadJobsWithCoordinatesServer: the module-level cache of the parsed CSV.  *)
(* Time is counted in minutes.  A file is [exists, version, mtime]; the jobs *)
(* parsed from it are named by <<resolved path, version>>.                   *)

\* const CACHE_TTL = 5 * 60 * 1000, in minutes
CACHE_TTL == 5

MaxMinutes == 6
MaxWrites == 3

\* the filePath arguments of the model
CsvPaths == {<<"/", "a">>, <<"a">>, <<"b">>}

\* path.join(process.cwd(), 'public', filePath.replace(/^\//, ''))
resolvePath(filePath) ==
    <<"p", "u", "b", "/">> \o
       (IF filePath # <<>> /\ Head(filePath) = "/" THEN Tail(filePath) ELSE filePath)

ResolvedPaths == {resolvePath(p) : p \in CsvPaths}

\* getFileMtime: statSync(filePath).mtimeMs, 0 when statSync throws
getFileMtime(files, filePath, statOk) ==
    IF statOk THEN files[filePath].mtime ELSE 0

NoLoad == [op |-> "none", path |-> <<>>, fileMtime |-> 0, now |-> 0,
           version |-> 0, returned |-> NULL,
           before |-> [cachedJobs |-> NULL, cachedFilePath |-> NULL,
                       cachedFileMtime |-> 0, cacheTimestamp |-> 0]]

InitServer ==
    /\ PipelineIdle
    /\ sidebar = NULL
    /\ searchBox = NULL
    /\ savedJobs = NULL
    /\ \E present \in SUBSET ResolvedPaths :
          serverCache =
             [files |-> [p \in ResolvedPaths |->
                            IF p \in present
                            THEN [exists |-> TRUE, version |-> 1, mtime |-> 1]
                            ELSE [exists |-> FALSE, version |-> 0, mtime |-> 0]],
              writes |-> 1,
              clock |-> 0,
              cachedJobs |-> NULL,
              cachedFilePath |-> NULL,
              cachedFileMtime |-> 0,
              cacheTimestamp |-> 0,
              lastParse |-> NULL,
              last |-> NoLoad]

ServerUnchanged == UNCHANGED <<pipelineVars, call, sidebar, searchBox, savedJobs>>

\* the environment writes a file: a new version with a new modification time
WriteFile(p) ==
    /\ serverCache.writes < MaxWrites
    /\ serverCache' = [serverCache EXCEPT
           !.writes = @ + 1,
           !.files[p] = [exists |-> TRUE, version |-> serverCache.writes + 1,
                         mtime |-> serverCache.writes + 1]]
    /\ ServerUnchanged

\* a minute passes
ClockTick ==
    /\ serverCache.clock < MaxMinutes
    /\ serverCache' = [serverCache EXCEPT !.clock = @ + 1]
    /\ ServerUnchanged

\* the four module variables
cacheFields(c) ==
    [cachedJobs |-> c.cachedJobs, cachedFilePath |-> c.cachedFilePath,
     cachedFileMtime |-> c.cachedFileMtime, cacheTimestamp |-> c.cacheTimestamp]

\* cachedJobs && cachedFilePath === filePathResolved &&
\* fileMtime === cachedFileMtime && (now - cacheTimestamp) < CACHE_TTL
cacheValid(c, filePathResolved, fileMtime, nowMin) ==
    /\ c.cachedJobs # NULL
    /\ c.cachedFilePath = Some(filePathResolved)
    /\ fileMtime = c.cachedFileMtime
    /\ (nowMin - c.cacheTimestamp) < CACHE_TTL

\* one call; statOk: statSync succeeds, parseOk: readFileSync and Papa.parse
\* succeed (complete is called, not error)
loadJobsWithCoordinatesServer(filePath, statOk, parseOk) ==
    LET c == serverCache
        filePathResolved == resolvePath(filePath)
        file == c.files[filePathResolved]
        fileMtime == getFileMtime(c.files, filePathResolved, statOk)
        record(op, returned) ==
            [op |-> op, path |-> filePathResolved, fileMtime |-> fileMtime,
             now |-> c.clock, version |-> file.version, returned |-> returned,
             before |-> cacheFields(c)]
        markers == <<filePathResolved, file.version>>
    IN /\ serverCache' =
            IF ~file.exists
            THEN [c EXCEPT !.last = record("notFound", NULL)]
            ELSE IF cacheValid(c, filePathResolved, fileMtime, c.clock)
            THEN [c EXCEPT !.last = record("cached", c.cachedJobs)]
            ELSE IF ~parseOk
            THEN [c EXCEPT !.last = record("rejected", NULL)]
            ELSE [c EXCEPT
                     !.cachedJobs = Some(markers),
                     !.cachedFilePath = Some(filePathResolved),
                     !.cachedFileMtime = fileMtime,
                     !.cacheTimestamp = c.clock,
                     !.lastParse = Some([cachedJobs |-> Some(markers),
                                         cachedFilePath |-> Some(filePathResolved),
                                         cachedFileMtime |-> fileMtime,
                                         cacheTimestamp |-> c.clock]),
                     !.last = record("parsed", Some(markers))]
       /\ ServerUnchanged

NextServer ==
    \/ \E p \in ResolvedPaths : WriteFile(p)
    \/ ClockTick
    \/ \E filePath \in CsvPaths, statOk \in BOOLEAN, parseOk \in BOOLEAN :
          loadJobsWithCoordinatesServer(filePath, statOk, parseOk)

SpecServer == InitServer /\ [][NextServer]_vars

-----------------------------------------------------------------------------
(* The search box of AllJobsList and CompaniesList: urlSearchText (nuqs),    *)
(* localSearchText, debouncedSearchText = useDebounce(localSearchText, 300)  *)
(* and the two URL-sync effects.  An absent 'search' parameter is ''.        *)
(* seen holds the dependencies of the last render whose effects have run;    *)
(* state set since then is rendered, and its effects run, in one later step. *)
(* A state update made by an effect is rendered before the next event.       *)

SearchBoxTexts == {<<>>, <<"a">>, <<"a", "b">>}

\* the dependencies the effects compare
searchDeps(s) ==
    [urlSearchText |-> s.urlSearchText, localSearchText |-> s.localSearchText,
     debouncedSearchText |-> s.debouncedSearchText]

\* the page is loaded with some 'search' parameter: useState(urlSearchText || ''),
\* useDebounce starts with the value, and the effects of the first render have
\* run (the URL-sync effects change nothing, useDebounce starts its timeout)
InitSearchBox ==
    /\ PipelineIdle
    /\ sidebar = NULL
    /\ savedJobs = NULL
    /\ serverCache = NULL
    /\ \E text \in SearchBoxTexts :
          searchBox = [urlSearchText |-> text, localSearchText |-> text,
                       debouncedSearchText |-> text, timer |-> Some(text),
                       seen |-> [urlSearchText |-> text, localSearchText |-> text,
                                 debouncedSearchText |-> text],
                       updateScheduled |-> FALSE,
                       typed |-> NULL, external |-> NULL, effectWrote |-> NULL]

SearchUnchanged == UNCHANGED <<pipelineVars, call, sidebar, savedJobs, serverCache>>

\* the effects of one render, each with the values of that render: the effect
\* of useDebounce (restart the timeout when the value changed), the effect
\* that copies the URL value into the local text, and the effect that writes
\* the debounced text to the URL
searchEffects(s) ==
    LET changed(field) == s.seen[field] # searchDeps(s)[field]
        copyUrl == changed("urlSearchText")
        writeUrl == /\ changed("debouncedSearchText") \/ changed("urlSearchText")
                    /\ s.debouncedSearchText # s.urlSearchText
    IN [s EXCEPT
          !.timer = IF changed("localSearchText")
                    THEN Some(s.localSearchText) ELSE @,
          !.localSearchText = IF copyUrl THEN s.urlSearchText ELSE @,
          !.urlSearchText = IF writeUrl THEN s.debouncedSearchText ELSE @,
          !.effectWrote = IF copyUrl
                          THEN Some([value |-> s.urlSearchText, typed |-> s.typed,
                                     external |-> s.external])
                          ELSE @,
          !.updateScheduled =
              (copyUrl /\ s.urlSearchText # s.localSearchText) \/ writeUrl,
          !.seen = searchDeps(s)]

\* onChange={(e) => setLocalSearchText(e.target.value)}: the update of a
\* keystroke is rendered synchronously and the effects run with it
onSearchInputChange(text) ==
    /\ ~searchBox.updateScheduled
    /\ text # searchBox.localSearchText
    /\ searchBox' = searchEffects([searchBox EXCEPT !.localSearchText = text,
                                                    !.typed = Some(text)])
    /\ SearchUnchanged

\* the timeout of useDebounce fires: setDebouncedValue(value)
useDebounceTimeout ==
    /\ ~searchBox.updateScheduled
    /\ searchBox.timer # NULL
    /\ searchBox' = [searchBox EXCEPT !.debouncedSearchText = searchBox.timer[1],
                                      !.timer = NULL]
    /\ SearchUnchanged

\* the 'search' parameter changes from outside the component (navigation)
UrlChangedExternally(text) ==
    /\ ~searchBox.updateScheduled
    /\ text # searchBox.urlSearchText
    /\ searchBox' = [searchBox EXCEPT !.urlSearchText = text,
                                      !.external = Some(text),
                                      !.typed = NULL]
    /\ SearchUnchanged

\* a pending render and its effects
RunSearchEffects ==
    /\ searchBox.seen # searchDeps(searchBox)
    /\ searchBox' = searchEffects(searchBox)
    /\ SearchUnchanged

NextSearchBox ==
    \/ \E text \in SearchBoxTexts : onSearchInputChange(text)
    \/ useDebounceTimeout
    \/ \E text \in SearchBoxTexts : UrlChangedExternally(text)
    \/ RunSearchEffects

SpecSearchBox == InitSearchBox /\ [][NextSearchBox]_vars

-----------------------------------------------------------------------------
(* Properties *)

\* position of a result job in the input list
InputPos(job) == CHOOSE i \in DOMAIN jobs : jobs[i].id = job.id

\* the age cutoff in effect, in days (NULL: none)
CutoffDays == IF parsedSearch.age # NULL THEN parsedSearch.age ELSE ageFilter

\* the parsed timestamp of a job's posted_at (NULL: missing or unparsable)
PostedTime(job) ==
    IF job.posted_at = NULL THEN NULL ELSE dateGetTime(job.posted_at[1])

PassesTextFilters(job) ==
    /\ parsedSearch.company # NULL => fuzzyMatch(job.company, parsedSearch.company[1], 95)
    /\ parsedSearch.location # NULL =>
          fuzzyMatch(job.location, parsedSearch.location[1], 85)
    /\ parsedSearch.generalSearch # <<>> =>
          \/ fuzzyMatch(job.title, parsedSearch.generalSearch, 75)
          \/ fuzzyMatch(job.company, parsedSearch.generalSearch, 75)
          \/ fuzzyMatch(job.location, parsedSearch.generalSearch, 75)

PassesAgeCutoff(job) ==
    CutoffDays # NULL =>
       /\ PostedTime(job) # NULL
       /\ PostedTime(job)[1] >= evalNow - CutoffDays[1] * MsPerDay

Occurrences(id) == Cardinality({k \in DOMAIN processedJobs : processedJobs[k].id = id})

\* C1: the result holds, each exactly once, exactly the input jobs that pass
\* every active filter (age cutoff, @company at 0.95, @location at 0.85,
\* general search at 0.75 against title, company or location); nothing else
\* is dropped, added or duplicated, whatever the sort key
C1_ResultIsExactlyThePassingJobs ==
    /\ \A i \in DOMAIN jobs :
          Occurrences(jobs[i].id) =
             IF PassesAgeCutoff(jobs[i]) /\ PassesTextFilters(jobs[i]) THEN 1 ELSE 0
    /\ \A k \in DOMAIN processedJobs :
          \E i \in DOMAIN jobs : processedJobs[k] = withTimestamp(jobs[i])

C1_Witness ==
    /\ parsedSearch.location # NULL
    /\ parsedSearch.generalSearch # <<>>
    /\ Len(jobs) = 2
    /\ Len(processedJobs) = 1

C2_Input == <<"@","c","o","m","p","a","n","y",":","O","p","e","n","A","I"," ","@","l","o","c","a","t","i","o","n",":","R","e","m","o","t","e"," ","s","e","n","i","o","r"," ","e","n","g","i","n","e","e","r">>

PlainTokens == {t \in ParseTokens : t # <<>> /\ \A i \in DOMAIN t : t[i] # "@"}

\* C2: parseSearchText("@company:OpenAI @location:Remote senior engineer")
\* gives company "OpenAI", location "Remote", generalSearch "senior engineer",
\* age null; free words after a tag's value go to generalSearch
C2_FreeWordsStayGeneral ==
    call.op = "parseSearchText" =>
       /\ call.searchText = C2_Input =>
             call.result = [age |-> NULL,
                            company |-> Some(<<"O","p","e","n","A","I">>),
                            location |-> Some(<<"R","e","m","o","t","e">>),
                            generalSearch |-> <<"s","e","n","i","o","r"," ","e","n","g","i","n","e","e","r">>]
       /\ \A w \in PlainTokens :
             call.searchText = <<"@","l","o","c","a","t","i","o","n",":","R","e","m","o","t","e"," ">> \o w =>
                /\ call.result.location = Some(<<"R","e","m","o","t","e">>)
                /\ call.result.generalSearch = w

\* the trimmed text between the first occurrence of the tag in the raw input
\* and the next @ (or the end); NULL when the tag does not occur
RawTagValue(raw, tag) ==
    LET starts == {p \in 1..Len(raw) : TagAt(raw, tag, p)}
    IN IF starts = {} THEN NULL
       ELSE LET c == SetMin(starts) + Len(tag)
                ats == {q \in c..Len(raw) : raw[q] = "@"}
                e == IF ats = {} THEN Len(raw) ELSE SetMin(ats) - 1
            IN Some(trim(SubSeq(raw, c, e)))

C3_Input == <<"@","c","o","m","p","a","n","y",":","A","c","m","e"," ","@","a","g","e",":","7"," ","s","e","n","i","o","r">>

\* C3: the parsed @company / @location value is the trimmed text between the
\* tag and the next @token of the raw input, whatever tag follows; for
\* "@company:Acme @age:7 senior" company is "Acme" and generalSearch "senior"
C3_ValueEndsAtNextTagOfRawInput ==
    call.op = "parseSearchText" =>
       /\ LET v == RawTagValue(call.searchText, CompanyTag)
          IN (v # NULL /\ v # Some(<<>>)) => call.result.company = v
       /\ LET v == RawTagValue(call.searchText, LocationTag)
          IN (v # NULL /\ v # Some(<<>>)) => call.result.location = v
       /\ call.searchText = C3_Input =>
             /\ call.result.company = Some(<<"A","c","m","e">>)
             /\ call.result.generalSearch = <<"s","e","n","i","o","r">>

\* C4: the cutoff in effect is the parsed @age (0 included), else ageFilter;
\* with a cutoff no returned job lacks a valid posted_at or is older than
\* now minus cutoff days; without one no job is removed because of its date
C4_AgeCutoff ==
    /\ CutoffDays # NULL =>
          \A k \in DOMAIN processedJobs :
             /\ PostedTime(processedJobs[k]) # NULL
             /\ PostedTime(processedJobs[k])[1] >= evalNow - CutoffDays[1] * MsPerDay
    /\ CutoffDays = NULL =>
          \A i \in DOMAIN jobs :
             PassesTextFilters(jobs[i]) => Occurrences(jobs[i].id) = 1

\* @age:0 overrides the button value 1: a job posted one millisecond before
\* the evaluation is left out
C4_Witness ==
    /\ parsedSearch.age = Some(0)
    /\ ageFilter = Some(1)
    /\ evalNow = Now0 + 1
    /\ \E i \in DOMAIN jobs :
          /\ PostedTime(jobs[i]) = Some(Now0)
          /\ PassesTextFilters(jobs[i])
          /\ Occurrences(jobs[i].id) = 0

\* C5: under 'recent' the result is newest first, jobs without a valid
\* timestamp come after all others, and jobs with equal timestamps or both
\* without one keep their input order
C5_RecentOrder ==
    sortBy = "recent" =>
       \A a, b \in DOMAIN processedJobs :
          a < b =>
             LET ta == PostedTime(processedJobs[a])
                 tb == PostedTime(processedJobs[b])
             IN /\ ~(ta = NULL /\ tb # NULL)
                /\ (ta # NULL /\ tb # NULL) => ta[1] >= tb[1]
                /\ ta = tb => InputPos(processedJobs[a]) < InputPos(processedJobs[b])

\* a newer job given second is moved in front of an older one
C5_Witness ==
    /\ sortBy = "recent"
    /\ Len(processedJobs) = 2
    /\ PostedTime(processedJobs[1]) # NULL
    /\ PostedTime(processedJobs[2]) # NULL
    /\ PostedTime(processedJobs[1])[1] > PostedTime(processedJobs[2])[1]
    /\ InputPos(processedJobs[1]) = 2

SortField(job) ==
    CASE sortBy = "title" -> job.title
      [] sortBy = "company" -> job.company
      [] OTHER -> job.location

\* C6: under 'title', 'company' or 'location' adjacent result jobs are in
\* ascending order of the trimmed, case-folded field
C6_StringSortAscending ==
    sortBy \in {"title", "company", "location"} =>
       \A k \in 1..(Len(processedJobs) - 1) :
          localeCompareBase(toLowerCase(trim(SortField(processedJobs[k]))),
                            toLowerCase(trim(SortField(processedJobs[k + 1])))) <= 0

\* " NY" (leading space) is placed after "Austin"
C6_Witness ==
    /\ sortBy = "location"
    /\ Len(processedJobs) = 2
    /\ processedJobs[1].location = <<"A","u","s","t","i","n">>
    /\ processedJobs[2].location = <<" ","N","Y">>
    /\ InputPos(processedJobs[1]) = 2

\* the value the claim gives a salary shape, in tenths
ClaimedSalary(shape) ==
    CASE shape.kind \in {"absent", "empty", "text"} -> -10
      [] shape.kind = "dict" -> shape.amount.tenths + 5
      [] shape.kind = "range" ->
           shape.min.n * (IF shape.kMin \/ shape.kMax THEN 1000 ELSE 1) * 10
      [] OTHER -> shape.amount.n * (IF shape.k THEN 1000 ELSE 1) * 10 + 5

\* C7: getSalaryValue gives -1 for an absent or unparsable summary, amount +
\* 0.5 for a dict, the minimum (x1000 with K) for a range, amount (x1000 with
\* K) + 0.5 for a single number; "$145K-$175K" -> 145000, "$150K" ->
\* 150000.5, dict 160000.0 -> 160000.5; -1 is below every parsed value
C7_SalaryValues ==
    call.op = "getSalaryValue" =>
       /\ call.result = ClaimedSalary(call.shape)
       /\ call.shape.kind \in {"dict", "range", "single"} => call.result > -10
       /\ call.salarySummary = Some(<<"$","1","4","5","K","-","$","1","7","5","K">>) => call.result = 1450000
       /\ call.salarySummary = Some(<<"$","1","5","0","K">>) => call.result = 1500005
       /\ call.salarySummary =
             Some(<<"{","'","u","n","i","t","'",":"," ","'","U","S","D","'",","," ","'","a","m","o","u","n","t","'",":"," ","'","1","6","0","0","0","0",".","0","'","}">>)
          => call.result = 1600005

C7_Witness ==
    /\ call.op = "getSalaryValue"
    /\ call.salarySummary = Some(<<"$","1","4","5","K","-","$","1","7","5","K">>)
    /\ call.result = 1450000

\* whether getSalaryValue reads the text as a range / as a single value
SalaryIsRange(job) ==
    /\ job.salary_summary # NULL
    /\ LET normalized == removeChars(job.salary_summary[1], CurrencyChars)
       IN dictAmountMatch(normalized) = NULL /\ rangeMatch(normalized) # NULL

SalaryIsSingle(job) ==
    /\ job.salary_summary # NULL
    /\ ~SalaryIsRange(job)
    /\ getSalaryValue(job.salary_summary) # 0 - SalaryScale

\* C8: in the list sorted by salary a range with minimum m comes before a
\* single value m (plain number or dict amount)
C8_RangeBeforeSingleAtSameMinimum ==
    sortBy = "salary" =>
       \A a, b \in DOMAIN processedJobs :
          ( /\ SalaryIsRange(processedJobs[a])
            /\ SalaryIsSingle(processedJobs[b])
            /\ getSalaryValue(processedJobs[b].salary_summary) =
                  getSalaryValue(processedJobs[a].salary_summary) + SalaryHalf )
          => a < b

HasDigits(experience) ==
    experience # NULL /\ \E i \in DOMAIN experience[1] : IsDigit(experience[1][i])

\* C9: under 'experience' the result ascends by the first run of digits of
\* the experience text ("2-4 years" is 2 and precedes "5 years"), jobs with
\* no number come after all others and keep their input order among themselves
C9_ExperienceOrder ==
    sortBy = "experience" =>
       \A a, b \in DOMAIN processedJobs :
          a < b =>
             LET ja == processedJobs[a]
                 jb == processedJobs[b]
             IN /\ ~(~HasDigits(ja.experience) /\ HasDigits(jb.experience))
                /\ (HasDigits(ja.experience) /\ HasDigits(jb.experience)) =>
                      getExperienceValue(ja.experience).n
                         <= getExperienceValue(jb.experience).n
                /\ ja.experience = Some(<<"5"," ","y","e","a","r","s">>) =>
                      jb.experience # Some(<<"2","-","4"," ","y","e","a","r","s">>)
                /\ ja.experience = Some(<<"1","0","+"," ","y","e","a","r","s">>) =>
                      jb.experience # Some(<<"5"," ","y","e","a","r","s">>)
                /\ (~HasDigits(ja.experience) /\ ~HasDigits(jb.experience)) =>
                      InputPos(ja) < InputPos(jb)

\* "5 years" given after "10+ years" is moved in front of it
C9_Witness ==
    /\ sortBy = "experience"
    /\ Len(processedJobs) = 2
    /\ processedJobs[1].experience = Some(<<"5"," ","y","e","a","r","s">>)
    /\ processedJobs[2].experience = Some(<<"1","0","+"," ","y","e","a","r","s">>)
    /\ InputPos(processedJobs[1]) = 2

\* C10: for a query of one or two characters fuzzyMatch is true only when the
\* query equals the normalized text, the whole-string similarity reaches the
\* threshold, or the query occurs in the text as a complete word
C10_ShortQueryNeverMatchesInsideAWord ==
    (call.op = "fuzzyMatch" /\ Len(trim(toLowerCase(call.query))) \in 1..2) =>
       LET normalizedText == trim(toLowerCase(call.text))
           normalizedQuery == trim(toLowerCase(call.query))
       IN call.result[1] =
             \/ normalizedText = normalizedQuery
             \/ RatioAtLeast(similarityRatio(normalizedText, normalizedQuery),
                             call.threshold)
             \/ wordBoundaryTest(escapeRegExp(normalizedQuery), normalizedText)

\* the query occurs in the text character for character between two word
\* boundaries
LiteralWordOccurs(word, text) ==
    \E p \in 0..(Len(text) - Len(word)) :
       /\ SubSeq(text, p + 1, p + Len(word)) = word
       /\ WordBoundaryAt(text, p)
       /\ WordBoundaryAt(text, p + Len(word))

\* C11: fuzzyMatch never throws and returns a boolean, also for queries with
\* regular-expression metacharacters such as "C++": the escaped query is
\* matched literally by the word-boundary pattern, for the whole query and for
\* each word of a multi-word query
C11_MetacharactersAreLiteral ==
    call.op = "fuzzyMatch" =>
       /\ ~call.threw
       /\ call.result \in {Some(TRUE), Some(FALSE)}
       /\ \A w \in {trim(toLowerCase(call.query))}
                   \cup Range(splitWords(trim(toLowerCase(call.query)))) :
             /\ ~newRegExpThrows(wordPattern(escapeRegExp(w)))
             /\ wordBoundaryTest(escapeRegExp(w), trim(toLowerCase(call.text)))
                   = LiteralWordOccurs(w, trim(toLowerCase(call.text)))
       /\ (call.text = <<"N","o","d","e"," ","j","s">> /\ call.query = <<"N","o","d","e",".","j","s">>
           /\ call.threshold = 95) => call.result = Some(FALSE)

C11_Witness ==
    /\ call.op = "fuzzyMatch"
    /\ call.text = <<"C","+","+"," ","E","n","g","i","n","e","e","r">>
    /\ call.query = <<"C","+","+">>
    /\ ~call.threw
    /\ call.result = Some(TRUE)

\* C12: the Levenshtein distance lies between 0 and max(|a|,|b|), so
\* similarityRatio lies in [0,1]; similarityRatio(a,a) = 1 and the ratio of
\* two empty strings is 1 (no division by zero)
C12_RatioWithinUnitInterval ==
    call.op = "similarityRatio" =>
       /\ call.distance >= 0
       /\ call.distance <= Max2(Len(call.str1), Len(call.str2))
       /\ call.result.den > 0
       /\ 0 <= call.result.num
       /\ call.result.num <= call.result.den
       /\ call.str1 = call.str2 => call.result.num = call.result.den
       /\ Len(call.str1) + Len(call.str2) = 0 => call.result = [num |-> 1, den |-> 1]

\* two strings with no character in common at any position: ratio 0
C12_Witness ==
    /\ call.op = "similarityRatio"
    /\ call.str1 = <<"a", "b">>
    /\ call.str2 = <<"b", "a", "a">>
    /\ call.distance = 2
    /\ call.result = [num |-> 1, den |-> 3]

\* C13: similarityRatio(a,b) = similarityRatio(b,a) for all strings a, b
C13_RatioSymmetric ==
    call.op = "similarityRatio" =>
       /\ call.distance = levenshteinDistance(call.str2, call.str1)
       /\ call.result.num * similarityRatio(call.str2, call.str1).den
             = similarityRatio(call.str2, call.str1).num * call.result.den

C13_Witness ==
    /\ call.op = "similarityRatio"
    /\ call.str1 = <<"a", "b", "b">>
    /\ call.str2 = <<"b">>
    /\ call.result = [num |-> 1, den |-> 3]

\* C14: a fuzzy threshold outside [0,1] ends in a configuration error and
\* never in a match result
C14_ThresholdOutsideRangeIsRejected ==
    (call.op = "fuzzyMatch" /\ call.threshold \notin 0..100) =>
       /\ call.threw
       /\ call.result = NULL

\* the Job fields of a cached record, without the cached timestamp
WithoutTimestamp(job) == [f \in DOMAIN job \ {"_dateTimestamp"} |-> job[f]]

C16_ResultIndependentOfEvaluationMoment ==
    \A t \in Now0..(Now0 + MaxTicks) :
       processedJobs =
          computeProcessedJobs(jobsWithTimestamps, parsedSearch, sortBy, ageFilter, t)

\* the positions of the raw input at which a tag keyword starts, in any case
TagPositions(raw, tag) ==
    {p \in 1..(Len(raw) - Len(tag) + 1) :
        \A k \in 1..Len(tag) : toLowerChar(raw[p + k - 1]) = tag[k]}

\* C17: when the input repeats a tag of one kind, the first occurrence
\* supplies the value and every later repeat stays in generalSearch as
\* literal text
C17_RepeatedTagStaysInGeneralSearch ==
    call.op = "parseSearchText" =>
       \A tag \in {AgeTag, CompanyTag, LocationTag} :
          Cardinality(TagPositions(call.searchText, tag)) >= 2 =>
             Cardinality(TagPositions(call.result.generalSearch, tag)) =
                Cardinality(TagPositions(call.searchText, tag)) - 1

\* C18: generalSearch is the remaining text without leading or trailing
\* whitespace, also when the input holds no tag; whitespace-only input gives
\* age, company and location null and an empty generalSearch
C18_GeneralSearchIsTrimmed ==
    call.op = "parseSearchText" =>
       /\ call.result.generalSearch = trim(call.result.generalSearch)
       /\ trim(call.searchText) = <<>> =>
             call.result = [age |-> NULL, company |-> NULL, location |-> NULL,
                            generalSearch |-> <<>>]

\* the positions of the raw input at which @age:<digit> starts, in any case
AgeTokens(raw) ==
    {p \in TagPositions(raw, AgeTag) :
        p + Len(AgeTag) <= Len(raw) /\ IsDigit(raw[p + Len(AgeTag)])}

\* the decimal value of the digits that follow the @age: keyword at p
AgeDigitsValue(raw, p) ==
    LET q == p + Len(AgeTag)
        last == SetMax({e \in q..Len(raw) : \A k \in q..e : IsDigit(raw[k])})
        digit(k) == CHOOSE d \in 0..9 : DigitChars[d + 1] = raw[k]
        RECURSIVE value(_)
        value(e) == IF e < q THEN 0 ELSE 10 * value(e - 1) + digit(e)
    IN value(last)

\* the raw input with every tag keyword written in lower case
LowerKeywords(raw) ==
    LET lowerAt(positions) ==
            [i \in DOMAIN raw |->
                IF i \in positions THEN toLowerChar(raw[i]) ELSE raw[i]]
    IN lowerAt(UNION {UNION {p..(p + Len(tag) - 1) : p \in TagPositions(raw, tag)} :
                         tag \in {AgeTag, CompanyTag, LocationTag}})

C19_Input == <<"@","a","g","e",":","7"," ","r","e","a","c","t">>

C19_MixedCase == <<"@","A","g","e",":","3"," ","@","C","o","m","p","a","n","y",":","A","c","m","e"," ","@","L","O","C","A","T","I","O","N",":","R","e","m","o","t","e">>

\* C19: for an input with @age:<digits> the parsed age is the decimal value of
\* the digits and no @age token is left in the text ("@age:7 react" gives age
\* 7 and generalSearch "react"); the keywords @age:, @company: and @location:
\* give the same result in any letter case
C19_AgeParsedAndKeywordsCaseInsensitive ==
    call.op = "parseSearchText" =>
       /\ AgeTokens(call.searchText) # {} =>
             /\ call.result.age =
                   Some(AgeDigitsValue(call.searchText, SetMin(AgeTokens(call.searchText))))
             /\ AgeTokens(call.result.generalSearch) = {}
       /\ call.searchText = C19_Input =>
             call.result = [age |-> Some(7), company |-> NULL, location |-> NULL,
                            generalSearch |-> <<"r","e","a","c","t">>]
       /\ call.result = parseSearchText(LowerKeywords(call.searchText))

\* the three keywords in mixed case, parsed as in lower case
C19_Witness ==
    /\ call.op = "parseSearchText"
    /\ call.searchText = C19_MixedCase
    /\ call.result = [age |-> Some(3),
                      company |-> Some(<<"A","c","m","e">>),
                      location |-> Some(<<"R","e","m","o","t","e">>),
                      generalSearch |-> <<>>]

\* a query word finds support in the text: an equal text word, a
\* word-boundary occurrence, a substring occurrence for 3 characters or more,
\* or a text word of comparable length that is similar enough
WordSupported(queryWord, normalizedText, threshold) ==
    \/ \E i \in DOMAIN splitWords(normalizedText) :
          splitWords(normalizedText)[i] = queryWord
    \/ LiteralWordOccurs(queryWord, normalizedText)
    \/ Len(queryWord) >= 3 /\ includes(normalizedText, queryWord)
    \/ \E i \in DOMAIN splitWords(normalizedText) :
          LET textWord == splitWords(normalizedText)[i]
          IN /\ 2 * Min2(Len(queryWord), Len(textWord)) >=
                   Max2(Len(queryWord), Len(textWord))
             /\ RatioAtLeast(similarityRatio(textWord, queryWord), threshold)

\* one of the steps before the word split decides the match
EarlierStepMatches(normalizedText, normalizedQuery, threshold) ==
    \/ normalizedText = normalizedQuery
    \/ RatioAtLeast(similarityRatio(normalizedText, normalizedQuery), threshold)
    \/ LiteralWordOccurs(normalizedQuery, normalizedText)
    \/ Len(normalizedQuery) >= 3 /\ includes(normalizedText, normalizedQuery)

\* C20: a multi-word query that no earlier step matches gives true exactly
\* when every query word finds support in the text; different query words may
\* lean on different text words, and one unsupported word gives false
C20_MultiWordQueryNeedsEveryWord ==
    (/\ call.op = "fuzzyMatch"
     /\ Len(splitWords(toLowerCase(call.query))) >= 2
     /\ ~EarlierStepMatches(trim(toLowerCase(call.text)),
                            trim(toLowerCase(call.query)), call.threshold)) =>
       call.result =
          Some(\A q \in DOMAIN splitWords(toLowerCase(call.query)) :
                  WordSupported(splitWords(toLowerCase(call.query))[q],
                                trim(toLowerCase(call.text)), call.threshold))

\* "enginer senior" against "senior engineer" at 0.75: no earlier step
\* matches, "senior" is an equal word and "enginer" is close to "engineer"
C20_Witness ==
    /\ call.op = "fuzzyMatch"
    /\ call.text = <<"s","e","n","i","o","r"," ","e","n","g","i","n","e","e","r">>
    /\ call.query = <<"e","n","g","i","n","e","r"," ","s","e","n","i","o","r">>
    /\ call.threshold = ThresholdGeneral
    /\ ~EarlierStepMatches(trim(toLowerCase(call.text)),
                           trim(toLowerCase(call.query)), call.threshold)
    /\ call.result = Some(TRUE)

\* C21: with the sidebar's sort option 'company' the displayed jobs are in
\* ascending company order, with or without a search text and whatever the
\* order of the jobs passed in
C21_SidebarCompanyOrder ==
    (sidebar # NULL /\ sidebar.sortBy = "company") =>
       \A i \in 1..(Len(sidebar.processedJobs) - 1) :
          localeCompare(sidebar.processedJobs[i].company,
                        sidebar.processedJobs[i + 1].company) <= 0

\* the keys of a list of markers in order of first appearance
RECURSIVE KeysInOrder(_, _)
KeysInOrder(markers, seen) ==
    IF markers = <<>> THEN seen
    ELSE KeysInOrder(Tail(markers),
                     IF markerKey(Head(markers)) \in Range(seen) THEN seen
                     ELSE Append(seen, markerKey(Head(markers))))

\* C24: dedupeJobs returns one job per key (ats_id, else id, else url, else
\* company-title-location) in order of first appearance of the key, and among
\* the jobs of a key it keeps one with the latest posted_at date whenever one
\* of them has a date, whatever their order and also after a duplicate whose
\* posted_at cannot be parsed
C24_DedupeKeepsLatestPerKey ==
    call.op = "dedupeJobs" =>
       /\ [i \in DOMAIN call.result |-> markerKey(call.result[i])] =
             KeysInOrder(call.markers, <<>>)
       /\ \A i \in DOMAIN call.result : call.result[i] \in Range(call.markers)
       /\ \A i \in DOMAIN call.result : \A k \in DOMAIN call.markers :
             (/\ markerKey(call.markers[k]) = markerKey(call.result[i])
              /\ markerDate(call.markers[k]).k = "num") =>
                /\ markerDate(call.result[i]).k = "num"
                /\ markerDate(call.result[i]).n >= markerDate(call.markers[k]).n

\* C30: the indexed lookup returns the same job as the linear one (both
\* undefined when nothing matches), also when two jobs of the list have the
\* same slug; looking up a listed job's own slug finds a job
C30_IndexedLookupAgreesWithLinear ==
    call.op = "findJobBySlug" =>
       /\ call.fast = call.linear
       /\ (\E i \in DOMAIN call.jobs :
              jobSlug(call.jobs[i]) = call.companySlug \o <<"/">> \o call.valueSlug)
             => call.fast # NULL /\ call.linear # NULL

\* C23: removing the @age tag does not clear ageFilter, and the age filter in
\* effect without a tag is the option the user last chose with the Posted
\* buttons
C23_ClickedOptionInEffectWithoutTag ==
    parsedSearch.age = NULL => effectiveAge(parsedSearch, ageFilter) = clickedAge

\* C25: while the debounced text holds @age:N the cutoff used is N, the sync
\* effect leaves ageFilter equal to N and is then at rest, and ageFilter
\* always comes back to N, also after a click on a Posted button
C25_AgeTagWinsOverButtons ==
    /\ [](parsedSearch.age # NULL =>
            /\ effectiveAge(parsedSearch, ageFilter) = parsedSearch.age
            /\ processedJobs =
                  computeProcessedJobs(jobsWithTimestamps, parsedSearch, sortBy,
                                       parsedSearch.age, evalNow))
    /\ [][AgeSyncEffect =>
            /\ ageFilter' = parsedSearch.age
            /\ parsedSearch'.age = ageFilter']_vars
    /\ (parsedSearch.age # NULL) ~>
          (parsedSearch.age = NULL \/ ageFilter = parsedSearch.age)

\* a click chose 1 day while the text held @age:0, and the effect wrote 0 back
C25_Witness ==
    /\ parsedSearch.age = Some(0)
    /\ clickedAge = Some(1)
    /\ ageFilter = Some(0)

\* C28: after any sequence of saveJobId, removeSavedJobId and
\* clearAllSavedJobs the stored list holds no id twice; isSaved(id) is true
\* exactly when the last operation on id was saveJobId(id) with no clear after
\* it; saving a saved id and removing an absent id leave the set of saved ids
\* unchanged; a missing, unparsable or non-array item reads as the empty list
C28_StoredIdsAreASet ==
    savedJobs # NULL =>
       LET ids == getSavedJobIds(savedJobs.storage)
           last == savedJobs.last
       IN /\ last.op # "none" =>
                /\ \A i, k \in DOMAIN ids : i # k => ids[i] # ids[k]
                /\ savedJobs.storage # NULL => savedJobs.storage[1] = JSONstringify(ids)
          /\ \A id \in AtsIds :
                /\ savedJobs.lastOp[id] = "none" =>
                      (isSaved(savedJobs.storage, id) <=> id \in Range(savedJobs.atStart))
                /\ savedJobs.lastOp[id] = "save" => isSaved(savedJobs.storage, id)
                /\ savedJobs.lastOp[id] \in {"remove", "clear"} =>
                      ~isSaved(savedJobs.storage, id)
          /\ (last.op = "save" /\ last.id \in Range(last.before)) =>
                Range(ids) = Range(last.before)
          /\ (last.op = "remove" /\ last.id \notin Range(last.before)) =>
                Range(ids) = Range(last.before)
          /\ (\/ savedJobs.storage = NULL
              \/ savedJobs.storage[1] \notin
                    {JSONstringify(l) : l \in UNION {[1..n -> AtsIds] : n \in 0..3}})
                => ids = <<>>

\* "a" was saved twice in a row and is stored once
C28_Witness ==
    /\ savedJobs # NULL
    /\ savedJobs.last = [op |-> "save", id |-> <<"a">>, before |-> <<<<"a">>>>]
    /\ savedJobs.storage = Some(<<"[","\"","a","\"","]">>)

\* C27: within one tab, after saveJob, unsaveJob, toggleSave or clearAll has
\* completed in one useSavedJobs instance every mounted instance reports the
\* saved set of localStorage, and toggleSave unsaves exactly when the id was
\* saved in localStorage
C27_InstancesAgreeWithStorage ==
    (savedJobs # NULL /\ savedJobs.last.instance \in HookInstances
        /\ savedJobs.last.op # "mount") =>
       /\ \A i \in HookInstances :
             savedJobs.instances[i].mounted =>
                Range(savedJobs.instances[i].savedJobIds)
                   = Range(getSavedJobIds(savedJobs.storage))
       /\ savedJobs.last.op = "toggleUnsave" => savedJobs.last.wasSaved
       /\ savedJobs.last.op = "toggleSave" => ~savedJobs.last.wasSaved

\* a call returns the cached list only when the resolved path equals the
\* cached path, the modification time equals the cached one and less than 5
\* minutes have passed since the cache was filled; otherwise it parses the
\* file again; the four cache fields always come from one load, and a failed
\* call leaves them unchanged
CacheHitOnlyWhenFresh ==
    serverCache # NULL =>
       LET last == serverCache.last
           fresh == /\ last.before.cachedJobs # NULL
                    /\ last.before.cachedFilePath = Some(last.path)
                    /\ last.fileMtime = last.before.cachedFileMtime
                    /\ last.now - last.before.cacheTimestamp < 5
       IN /\ last.op = "cached" => fresh /\ last.returned = last.before.cachedJobs
          /\ last.op \in {"parsed", "rejected"} => ~fresh
          /\ last.op = "parsed" =>
                /\ last.returned = Some(<<last.path, last.version>>)
                /\ cacheFields(serverCache) =
                      [cachedJobs |-> last.returned, cachedFilePath |-> Some(last.path),
                       cachedFileMtime |-> last.fileMtime, cacheTimestamp |-> last.now]
          /\ last.op \in {"cached", "rejected", "notFound"} =>
                cacheFields(serverCache) = last.before
          /\ serverCache.lastParse # NULL =>
                cacheFields(serverCache) = serverCache.lastParse[1]
          /\ serverCache.lastParse = NULL => serverCache.cachedJobs = NULL
          /\ serverCache.cachedJobs # NULL =>
                serverCache.cachedFilePath = Some(serverCache.cachedJobs[1][1])

\* C29: the cached list is returned only for the same resolved path, the same
\* modification time and within 5 minutes, the four cache fields describe one
\* load, a failed parse leaves the cache unchanged, and a call never returns
\* the jobs of another file or of an older version of the file
C29_CacheNeverServesAnotherFileOrVersion ==
    /\ CacheHitOnlyWhenFresh
    /\ (serverCache # NULL /\ serverCache.last.returned # NULL) =>
          serverCache.last.returned =
             Some(<<serverCache.last.path, serverCache.last.version>>)

\* the effects have settled: the last render's effects have run, they changed
\* nothing, and no timeout of useDebounce is pending
SearchSettled ==
    /\ searchBox # NULL
    /\ searchBox.seen = searchDeps(searchBox)
    /\ searchBox.timer = NULL

\* C22: when the 'search' parameter changes externally and the user types
\* nothing afterwards, then once the effects have settled the local text, the debounced text and the parameter all equal
\* the external value
C22_ExternalUrlValueWins ==
    (SearchSettled /\ searchBox.external # NULL /\ searchBox.typed = NULL) =>
       /\ searchBox.urlSearchText = searchBox.external[1]
       /\ searchBox.localSearchText = searchBox.external[1]
       /\ searchBox.debouncedSearchText = searchBox.external[1]

\* C26: without external changes of the parameter, every write to the local
\* text by the URL-sync effect after the user typed writes the latest text the user typed, and once the effects have
\* settled after typing the local text, the debounced text and the parameter
\* all equal that text
C26_TypedTextNeverReplacedByOlder ==
    searchBox # NULL =>
       /\ (/\ searchBox.effectWrote # NULL
           /\ searchBox.effectWrote[1].typed # NULL
           /\ searchBox.effectWrote[1].external = NULL) =>
             searchBox.effectWrote[1].value = searchBox.effectWrote[1].typed[1]
       /\ (SearchSettled /\ searchBox.typed # NULL /\ searchBox.external = NULL) =>
             /\ searchBox.localSearchText = searchBox.typed[1]
             /\ searchBox.debouncedSearchText = searchBox.typed[1]
             /\ searchBox.urlSearchText = searchBox.typed[1]

====
